---- MODULE Spec2Model ----
(***************************************************************************)
(* Model of the tomorrow-you backend: the memory tree store (one file per  *)
(* node, branches.json), the session document, the transcript document,    *)
(* the conversation memory recorder, the branch growth endpoint and the    *)
(* pipeline orchestrator.                                                  *)
(*                                                                         *)
(* Strings are sequences of symbols so that lower(), replace(" ", "-"),    *)
(* strip() and string formatting are computed, not assumed.                *)
(***************************************************************************)
EXTENDS Integers, Sequences, FiniteSets, TLC

VARIABLES
    sessProfile,        \* session.json userProfile: number of filled fields, -1 when None
    sessCurrentSelf,    \* session.json currentSelf: a card, or NoCard
    sessStatus,         \* session.json status label
    sessTranscriptLen,  \* len(session.json transcript) (interview entries)
    futureSelvesFull,   \* session.json futureSelvesFull: self id -> card
    explorationPaths,   \* session.json explorationPaths: parent key -> seq of self ids
    sessMemoryNodes,    \* session.json memoryNodes: node copies (absent until first written)
    sessMemoryBranches, \* session.json memoryBranches: seq of branch records
    nodeFiles,          \* memory/nodes/*.json: node id -> node
    branchesDoc,        \* memory/branches.json
    transcriptDoc,      \* transcript.json
    clock,              \* time.time(), advanced by every growth call
    budget,             \* remaining calls per kind of operation (bounds the exploration)
    last                \* the last call made: operation, arguments, outcome

vars == <<sessProfile, sessCurrentSelf, sessStatus, sessTranscriptLen, futureSelvesFull,
          explorationPaths, sessMemoryNodes, sessMemoryBranches, nodeFiles, branchesDoc,
          transcriptDoc, clock, budget, last>>

sessionVars == <<sessProfile, sessCurrentSelf, sessStatus, sessTranscriptLen,
                 futureSelvesFull, explorationPaths, sessMemoryNodes, sessMemoryBranches>>

treeVars == <<nodeFiles, branchesDoc>>

----------------------------------------------------------------------------
(* Bounds of the exploration *)

MaxTranscriptEntries == 4
MaxFactsPerNode == 3
MaxNotesPerNode == 3
MaxGrowthCalls == 2
MaxAppendCalls == 3
MaxAnalyzeCalls == 2
MaxInterviewSteps == 1
MaxBatch == 2
MaxTreeGrowthOps == 3
MaxTrimInput == 5
InterviewMessages == 2
MaxSiblings == 3

----------------------------------------------------------------------------
(* None / absent values *)

NullSeq == <<"null">>
NoCard == [id |-> NullSeq]
\* a list-valued key of session.json: absent, or present with its items
NoList == [present |-> FALSE, items |-> <<>>]
SomeList(items) == [present |-> TRUE, items |-> items]

Min(a, b) == IF a < b THEN a ELSE b

\* Python's xs[-n:] for n >= 1
LastN(xs, n) == IF Len(xs) <= n THEN xs ELSE SubSeq(xs, Len(xs) - n + 1, Len(xs))

\* Python's xs[-n:], also for n = 0 where -0 is 0 and the slice is the whole list
PySliceLast(xs, n) == IF n = 0 THEN xs ELSE LastN(xs, n)

SeqRange(xs) == {xs[i] : i \in 1..Len(xs)}

RECURSIVE SelectSeqIdx(_, _, _)
SelectSeqIdx(xs, keep, i) ==
    IF i > Len(xs) THEN <<>>
    ELSE (IF i \in keep THEN <<xs[i]>> ELSE <<>>) \o SelectSeqIdx(xs, keep, i + 1)

----------------------------------------------------------------------------
(* Strings *)

\* str.lower() on one symbol
LowerSym(c) ==
    CASE c = "Root" -> "root"
      [] c = "Bold" -> "bold"
      [] c = "Self" -> "self"
      [] c = "Calm" -> "calm"
      [] c = "Risk" -> "risk"
      [] c = "Home" -> "home"
      [] OTHER -> c

Lower(s) == [i \in 1..Len(s) |-> LowerSym(s[i])]

\* str.replace(" ", "-")
ReplaceSpace(s) == [i \in 1..Len(s) |-> IF s[i] = " " THEN "-" ELSE s[i]]

\* name.lower().replace(" ", "-")
Slugify(name) == ReplaceSpace(Lower(name))

RECURSIVE LStrip(_)
LStrip(s) == IF s # <<>> /\ Head(s) = " " THEN LStrip(Tail(s)) ELSE s

RECURSIVE RStrip(_)
RStrip(s) == IF s # <<>> /\ s[Len(s)] = " " THEN RStrip(SubSeq(s, 1, Len(s) - 1)) ELSE s

\* str.strip()
Strip(s) == RStrip(LStrip(s))

----------------------------------------------------------------------------
(* Names the completion service may give to a generated self, texts a user  *)
(* may send, insights the extraction may return                             *)

Names == { <<"Bold", " ", "Self">>, <<"bold", "-", "self">>, <<"Calm">>, <<"Root">> }

UserTexts == { <<"x", " ">>, <<"y">>, <<" ">> }
AssistantTexts == { <<"r">> }

FilledChoices == {9, 10}

RECURSIVE SeqsUpTo(_, _)
SeqsUpTo(S, n) ==
    IF n = 0 THEN {<<>>}
    ELSE LET shorter == SeqsUpTo(S, n - 1)
         IN  shorter \cup {Append(q, x) : q \in {r \in shorter : Len(r) = n - 1}, x \in S}

----------------------------------------------------------------------------
(* Self cards and their ids *)

\* hash_id: sha256 of "name|parent_id or ''|timestamp", truncated; the digest is
\* modelled as collision-free, so an id is its preimage
HashId(name, parentId, timestamp) ==
    name \o <<"|">> \o (IF parentId = NullSeq THEN <<>> ELSE parentId)
         \o <<"|">> \o <<ToString(timestamp)>>

CurrentSelfCard ==
    [id |-> <<"self_current">>, type |-> "current", name |-> <<"Me">>,
     parentSelfId |-> NullSeq, depthLevel |-> 0, childrenIds |-> <<>>]

\* depth passed to _assign_voices_and_finalize by FutureSelfGenerator.generate
GenerateDepthNoIncrement(ctxDepth, hasParent) == IF hasParent THEN ctxDepth ELSE 1

GenerateDepth(ctxDepth, hasParent) == IF hasParent THEN ctxDepth + 1 ELSE 1

AssignVoicesAndFinalize(rawNames, parentId, depth, timestamp) ==
    [i \in 1..Len(rawNames) |->
        [id |-> HashId(rawNames[i], parentId, timestamp), type |-> "future",
         name |-> rawNames[i], parentSelfId |-> parentId, depthLevel |-> depth,
         childrenIds |-> <<>>]]

\* root-level generation as the growth endpoint uses it: the cards of the
\* generator, then parent_self_id = None, depth_level = 1, children_ids = []
GenerateRoot(rawNames, timestamp) ==
    LET made == AssignVoicesAndFinalize(rawNames, NullSeq, GenerateDepth(0, FALSE), timestamp)
    IN  [i \in 1..Len(made) |->
            [made[i] EXCEPT !.parentSelfId = NullSeq, !.depthLevel = 1, !.childrenIds = <<>>]]

\* generate_secondary: the generation context is built from the parent self,
\* its depth being the parent's depth
GenerateSecondary(parentSelf, rawNames, timestamp) ==
    AssignVoicesAndFinalize(rawNames, parentSelf.id,
                            GenerateDepth(parentSelf.depthLevel, TRUE), timestamp)

CardIds(cards) == [i \in 1..Len(cards) |-> cards[i].id]

\* the first candidate mood whose pool voice is set and not yet used, 0 when
\* there is none; a mood the pool does not list has the voice ""
RECURSIVE FirstFreeCandidate(_, _, _, _)
FirstFreeCandidate(candidates, i, pool, used) ==
    IF i > Len(candidates) THEN 0
    ELSE IF pool[candidates[i]] # "" /\ pool[candidates[i]] \notin used THEN i
    ELSE FirstFreeCandidate(candidates, i + 1, pool, used)

\* _assign_voice: pool[mood], then the fallback chain of the mood, then the
\* default voice, which is not recorded as used
AssignVoice(mood, used, pool, chains, default) ==
    LET candidates == <<mood>> \o chains[mood]
        hit == FirstFreeCandidate(candidates, 1, pool, used)
    IN  IF hit = 0 THEN [voice |-> default, used |-> used]
        ELSE [voice |-> pool[candidates[hit]], used |-> used \cup {pool[candidates[hit]]}]

\* the loop of _assign_voices_and_finalize: the voice ids of the batch in order
RECURSIVE AssignVoices(_, _, _, _, _)
AssignVoices(moods, used, pool, chains, default) ==
    IF moods = <<>> THEN <<>>
    ELSE LET first == AssignVoice(Head(moods), used, pool, chains, default)
         IN  <<first.voice>> \o AssignVoices(Tail(moods), first.used, pool, chains, default)

----------------------------------------------------------------------------
(* Memory tree store *)

RootNodeId == <<"root_node">>
RootBranchName == <<"root">>

\* uuid4: a fresh id, here the next unused one
NewNodeId(nodes) == <<"node_branch_", ToString(Cardinality(DOMAIN nodes))>>

PutNode(nodes, node) ==
    [x \in DOMAIN nodes \cup {node.id} |-> IF x = node.id THEN node ELSE nodes[x]]

BranchNames(branches) == {branches[j].name : j \in 1..Len(branches)}

RootNode(currentSelf) ==
    [id |-> RootNodeId, parentId |-> NullSeq, branchLabel |-> RootBranchName,
     facts |-> << [fact |-> <<"Current self: ">> \o currentSelf.name,
                   type |-> NullSeq, source |-> "onboarding"],
                  [fact |-> <<"Optimization goal: ", "goal">>,
                   type |-> NullSeq, source |-> "onboarding"] >>,
     notes |-> << <<"Root node created during onboarding">> >>,
     selfCard |-> currentSelf]

RootBranch ==
    [name |-> RootBranchName, headNodeId |-> RootNodeId, parentBranchName |-> NullSeq]

----------------------------------------------------------------------------
(* Calls and their budgets *)

Call(op, args, result) == [op |-> op, args |-> args, result |-> result]

Spend(kind) == [budget EXCEPT ![kind] = @ - 1]

\* how many calls of each kind a run explores: a deep tree with few turns, or
\* a shallow tree with a longer conversation
Budgets ==
    { [interview |-> MaxInterviewSteps, growth |-> MaxGrowthCalls, batch |-> MaxBatch,
       append |-> 1, analyze |-> 0, rerun |-> FALSE],
      [interview |-> MaxInterviewSteps, growth |-> 1, batch |-> 1,
       append |-> MaxAppendCalls, analyze |-> MaxAnalyzeCalls, rerun |-> TRUE] }

Init ==
    /\ sessProfile = -1
    /\ sessCurrentSelf = NoCard
    /\ sessStatus = "onboarding"
    /\ sessTranscriptLen = 0
    /\ futureSelvesFull = <<>>
    /\ explorationPaths = <<>>
    /\ sessMemoryNodes = NoList
    /\ sessMemoryBranches = NoList
    /\ nodeFiles = <<>>
    /\ branchesDoc = <<>>
    /\ transcriptDoc = <<>>
    /\ clock = 1
    /\ budget \in Budgets
    /\ last = Call("start_interview", [none |-> TRUE], "ok")

----------------------------------------------------------------------------
(* Onboarding *)

\* _run_extraction_in_background: the extracted profile and the interview
\* transcript are written to session.json
InterviewReply(filled, messages) ==
    /\ budget.interview > 0
    /\ sessProfile' = filled
    /\ sessTranscriptLen' = messages
    /\ budget' = Spend("interview")
    /\ last' = Call("interview_reply", [filled |-> filled], "ok")
    /\ UNCHANGED <<sessCurrentSelf, sessStatus, futureSelvesFull, explorationPaths,
                   sessMemoryNodes, sessMemoryBranches, treeVars, transcriptDoc, clock>>

TotalFields == 20

\* the threshold with a strict comparison
CompletenessAboveHalf(filled) == 2 * Min(TotalFields, filled) > TotalFields

\* _calculate_completeness, times TotalFields: min(1.0, filled / 20) >= 0.5
CompletenessAtLeastHalf(filled) == 2 * Min(TotalFields, filled) >= TotalFields

\* the checks of complete_onboarding_flow without the one on currentSelf
CompleteOnboardingResultNoSelfCheck ==
    IF sessProfile = -1 THEN "InvalidStateError"
    ELSE IF ~CompletenessAtLeastHalf(sessProfile) THEN "InvalidStateError"
    ELSE "ok"

\* the checks complete_onboarding_flow makes before it generates the current self
CompleteOnboardingResult ==
    IF sessCurrentSelf # NoCard THEN "InvalidStateError"
    ELSE IF sessProfile = -1 THEN "InvalidStateError"
    ELSE IF ~CompletenessAtLeastHalf(sessProfile) THEN "InvalidStateError"
    ELSE "ok"

\* PipelineOrchestrator.complete_onboarding_flow; generated selects whether the
\* current-self generation succeeds
CompleteOnboarding(generated) ==
    LET result == IF CompleteOnboardingResult = "ok" /\ ~generated
                  THEN "PipelineOrchestratorError" ELSE CompleteOnboardingResult
    IN  /\ CompleteOnboardingResult = "ok" \/ generated
        /\ last' = Call("complete_onboarding", [generated |-> generated], result)
        /\ IF result = "ok"
           THEN /\ sessCurrentSelf' = CurrentSelfCard
                /\ sessStatus' = "ready_for_future_self_generation"
                /\ nodeFiles' = PutNode(nodeFiles, RootNode(CurrentSelfCard))
                /\ branchesDoc' = <<RootBranch>>
           ELSE UNCHANGED <<sessCurrentSelf, sessStatus, nodeFiles, branchesDoc>>
        /\ UNCHANGED <<sessProfile, sessTranscriptLen, futureSelvesFull, explorationPaths,
                       sessMemoryNodes, sessMemoryBranches, transcriptDoc, clock, budget>>

----------------------------------------------------------------------------
(* Branch growth: POST /future-self/generate *)

PutCard(full, card) ==
    [x \in DOMAIN full \cup {card.id} |-> IF x = card.id THEN card ELSE full[x]]

\* only the first card of the batch stored
StoreCardsFirstOnly(full, cards, i) ==
    IF cards = <<>> THEN full ELSE PutCard(full, cards[1])

\* session_data["futureSelvesFull"][card.id] = card, for every card of the batch
RECURSIVE StoreCards(_, _, _)
StoreCards(full, cards, i) ==
    IF i > Len(cards) THEN full ELSE StoreCards(PutCard(full, cards[i]), cards, i + 1)

\* the parent's childrenIds extended by the first id of the new batch only
PatchParentChildrenFirstOnly(full, parentId, newIds) ==
    IF parentId \in DOMAIN full
    THEN [full EXCEPT ![parentId].childrenIds = @ \o (IF newIds = <<>> THEN <<>> ELSE <<newIds[1]>>)]
    ELSE full

\* the parent's childrenIds replaced by the ids of the new batch
PatchParentChildrenReplace(full, parentId, newIds) ==
    IF parentId \in DOMAIN full
    THEN [full EXCEPT ![parentId].childrenIds = newIds]
    ELSE full

\* the parent's childrenIds, extended by the ids of the new batch
PatchParentChildren(full, parentId, newIds) ==
    IF parentId \in DOMAIN full
    THEN [full EXCEPT ![parentId].childrenIds = @ \o newIds]
    ELSE full

\* the path recording the parent key in front of the new ids
ExtendPathWithKey(paths, key, ids) ==
    [k \in DOMAIN paths \cup {key} |->
        (IF k \in DOMAIN paths THEN paths[k] ELSE <<>>)
            \o (IF k = key THEN <<key>> \o ids ELSE <<>>)]

\* explorationPaths[parent_key].extend(ids of the batch), the list created when absent
ExtendPath(paths, key, ids) ==
    [k \in DOMAIN paths \cup {key} |->
        (IF k \in DOMAIN paths THEN paths[k] ELSE <<>>) \o (IF k = key THEN ids ELSE <<>>)]

RootKey == <<"root">>

\* _find_root_node_id / _find_node_id_for_self: the set of matching node files
RootNodeIds(nodes) == {n \in DOMAIN nodes : nodes[n].parentId = NullSeq}
\* the lookup falling back to the root node when no node embeds the self
NodeIdsForSelfOrRoot(nodes, selfId) ==
    IF {n \in DOMAIN nodes : nodes[n].selfCard.id = selfId} = {}
    THEN RootNodeIds(nodes)
    ELSE {n \in DOMAIN nodes : nodes[n].selfCard.id = selfId}

NodeIdsForSelf(nodes, selfId) == {n \in DOMAIN nodes : nodes[n].selfCard.id = selfId}

\* a node that is its own parent
BranchNodeSelfParent(nodeId, card, parentNodeId, branchName, parentBranchName) ==
    [id |-> nodeId, parentId |-> nodeId, branchLabel |-> branchName,
     facts |-> << [fact |-> <<"Optimizes for: ", "goal">>,
                   type |-> NullSeq, source |-> "interview"] >>,
     notes |-> << <<"Branch node for: ">> \o card.name \o <<" (parent: ">>
                  \o parentBranchName \o <<")">> >>,
     selfCard |-> card]

\* a node written without its parent
BranchNodeNoParent(nodeId, card, parentNodeId, branchName, parentBranchName) ==
    [id |-> nodeId, parentId |-> NullSeq, branchLabel |-> branchName,
     facts |-> << [fact |-> <<"Optimizes for: ", "goal">>,
                   type |-> NullSeq, source |-> "interview"] >>,
     notes |-> << <<"Branch node for: ">> \o card.name \o <<" (parent: ">>
                  \o parentBranchName \o <<")">> >>,
     selfCard |-> card]

\* the node written for one generated self
BranchNode(nodeId, card, parentNodeId, branchName, parentBranchName) ==
    [id |-> nodeId, parentId |-> parentNodeId, branchLabel |-> branchName,
     facts |-> << [fact |-> <<"Optimizes for: ", "goal">>,
                   type |-> NullSeq, source |-> "interview"] >>,
     notes |-> << <<"Branch node for: ">> \o card.name \o <<" (parent: ">>
                  \o parentBranchName \o <<")">> >>,
     selfCard |-> card]

\* the duplicate check against the last record only
BranchNameTakenLastOnly(branchName, branches) ==
    branches # <<>> /\ branches[Len(branches)].name = branchName

\* no duplicate check at all
BranchNameTakenNever(branchName, branches) == FALSE

\* branch_name in existing_branch_names
BranchNameTaken(branchName, branches) == branchName \in BranchNames(branches)

\* the loop of _create_memory_branches over the batch, from card i on
RECURSIVE CreateMemoryBranches(_, _, _, _, _, _)
CreateMemoryBranches(cards, i, parentNodeId, parentBranchName, nodes, branches) ==
    IF i > Len(cards) THEN [nodes |-> nodes, branches |-> branches]
    ELSE LET branchName == Slugify(cards[i].name)
         IN  IF BranchNameTaken(branchName, branches)
             THEN CreateMemoryBranches(cards, i + 1, parentNodeId, parentBranchName,
                                       nodes, branches)
             ELSE LET nodeId == NewNodeId(nodes)
                  IN  CreateMemoryBranches(
                          cards, i + 1, parentNodeId, parentBranchName,
                          PutNode(nodes, BranchNode(nodeId, cards[i], parentNodeId,
                                                    branchName, parentBranchName)),
                          Append(branches, [name |-> branchName, headNodeId |-> nodeId,
                                            parentBranchName |-> parentBranchName]))

\* the node files in creation order (glob order does not matter to the mirror's content)
NodeIdsInOrder(nodes) ==
    [i \in 1..Cardinality(DOMAIN nodes) |->
        IF i = 1 THEN RootNodeId ELSE <<"node_branch_", ToString(i - 1)>>]

\* session_data["memoryNodes"] kept in sync: node files not yet mirrored are appended
SyncMemoryNodes(mirror, nodes) ==
    LET base == IF mirror.present THEN mirror.items ELSE <<>>
        have == {base[i].id : i \in 1..Len(base)}
        order == NodeIdsInOrder(nodes)
        missing == SelectSeqIdx(order, {i \in 1..Len(order) : order[i] \notin have}, 1)
    IN  SomeList(base \o [i \in 1..Len(missing) |-> nodes[missing[i]]])

SystemEntry(count) ==
    [turn |-> sessTranscriptLen + 1, phase |-> "selection", role |-> "system",
     selfName |-> NullSeq, selfId |-> NullSeq, branchName |-> NullSeq,
     content |-> <<"Generated ", ToString(count), " futures">>]

\* the outcome of generate_future_selves before it writes anything
GenerateResult(parentId, llmOk) ==
    IF sessProfile = -1 THEN "HTTP400"
    ELSE IF parentId = NullSeq
    THEN IF sessCurrentSelf = NoCard THEN "HTTP400"
         ELSE IF ~llmOk THEN "HTTP500"
         ELSE IF RootNodeIds(nodeFiles) = {} THEN "ValueError"
         ELSE "ok"
    ELSE IF parentId \notin DOMAIN futureSelvesFull THEN "HTTP404"
         ELSE IF ~llmOk THEN "HTTP500"
         ELSE IF NodeIdsForSelf(nodeFiles, parentId) = {} THEN "ValueError"
         ELSE "ok"

\* generate_future_selves on its success path: every document it writes
GenerateWrites(parentId, rawNames) ==
    LET isRoot == parentId = NullSeq
        cards == IF isRoot THEN GenerateRoot(rawNames, clock)
                 ELSE GenerateSecondary(futureSelvesFull[parentId], rawNames, clock)
        parentKey == IF isRoot THEN RootKey ELSE parentId
        parentNodeId == IF isRoot THEN CHOOSE n \in RootNodeIds(nodeFiles) : TRUE
                        ELSE CHOOSE n \in NodeIdsForSelf(nodeFiles, parentId) : TRUE
        parentBranchName == IF isRoot THEN RootBranchName
                            ELSE Slugify(futureSelvesFull[parentId].name)
        patched == IF isRoot THEN futureSelvesFull
                   ELSE PatchParentChildren(futureSelvesFull, parentId, CardIds(cards))
        tree == CreateMemoryBranches(cards, 1, parentNodeId, parentBranchName,
                                     nodeFiles, branchesDoc)
    IN  /\ futureSelvesFull' = StoreCards(patched, cards, 1)
        /\ explorationPaths' = ExtendPath(explorationPaths, parentKey, CardIds(cards))
        /\ sessStatus' = IF isRoot THEN "selection" ELSE sessStatus
        /\ nodeFiles' = tree.nodes
        /\ branchesDoc' = tree.branches
        /\ sessMemoryBranches' = SomeList(tree.branches)
        /\ sessMemoryNodes' = SyncMemoryNodes(sessMemoryNodes, tree.nodes)
        /\ transcriptDoc' = Append(transcriptDoc, SystemEntry(Len(cards)))
        /\ UNCHANGED <<sessProfile, sessCurrentSelf, sessTranscriptLen>>

\* the arguments of a growth call; the names are what the completion service
\* answered, which a failing call never reads
\* a generator that asks the completion service again after a bad answer
CompletionCallsRetrying(result) ==
    IF result \in {"HTTP400", "HTTP404"} THEN 0
    ELSE IF result = "HTTP500" THEN 2 ELSE 1

\* how many times generate_future_selves calls the completion service: not at
\* all when the request is rejected first, otherwise the single complete_async
\* of FutureSelfGenerator.generate (no loop around it, none in the endpoint)
CompletionCalls(result) ==
    IF result \in {"HTTP400", "HTTP404"} THEN 0 ELSE 1

GrowthArgs(parentId, rawNames, llmOk, calls) ==
    [parentSelfId |-> parentId, names |-> rawNames, llmOk |-> llmOk, calls |-> calls]

\* the endpoint called directly (HTTP route, generate_future_selves CLI)
GenerateFutureSelves(parentId, rawNames, llmOk) ==
    LET result == GenerateResult(parentId, llmOk)
    IN  /\ budget.growth > 0
        /\ Len(rawNames) <= budget.batch
        /\ result = "ok" \/ rawNames = <<>>
        /\ budget' = IF result = "ok" THEN Spend("growth") ELSE budget
        /\ clock' = IF result = "ok" THEN clock + 1 ELSE clock
        /\ last' = Call("generate_future_selves",
                      GrowthArgs(parentId, rawNames, llmOk, CompletionCalls(result)), result)
        /\ IF result = "ok" THEN GenerateWrites(parentId, rawNames)
           ELSE UNCHANGED <<sessionVars, treeVars, transcriptDoc>>

\* a conversation entry of any self
HasConversationAnySelf(transcript, selfId) ==
    \E i \in 1..Len(transcript) : transcript[i].phase = "conversation"

\* any(e.phase == "conversation" and e.selfId == parent_self_id for e in transcript)
HasConversation(transcript, selfId) ==
    \E i \in 1..Len(transcript) :
        transcript[i].phase = "conversation" /\ transcript[i].selfId = selfId

InitializeExplorationResult(llmOk) ==
    IF sessCurrentSelf = NoCard THEN "InvalidStateError"
    ELSE IF DOMAIN futureSelvesFull # {} THEN "InvalidStateError"
    ELSE IF GenerateResult(NullSeq, llmOk) # "ok" THEN "PipelineOrchestratorError"
    ELSE "ok"

\* PipelineOrchestrator.initialize_exploration
InitializeExploration(rawNames, llmOk) ==
    LET result == InitializeExplorationResult(llmOk)
    IN  /\ budget.growth > 0
        /\ Len(rawNames) <= budget.batch
        /\ result = "ok" \/ rawNames = <<>>
        /\ budget' = IF result = "ok" THEN Spend("growth") ELSE budget
        /\ clock' = IF result = "ok" THEN clock + 1 ELSE clock
        /\ last' = Call("initialize_exploration",
                      GrowthArgs(NullSeq, rawNames, llmOk,
                                 IF result = "InvalidStateError" THEN 0
                                 ELSE CompletionCalls(GenerateResult(NullSeq, llmOk))),
                      result)
        /\ IF result = "ok" THEN GenerateWrites(NullSeq, rawNames)
           ELSE UNCHANGED <<sessionVars, treeVars, transcriptDoc>>

BranchFromConversationResult(parentId, llmOk) ==
    IF parentId \notin DOMAIN futureSelvesFull THEN "InvalidStateError"
    ELSE IF ~HasConversation(transcriptDoc, parentId) THEN "InvalidStateError"
    ELSE IF GenerateResult(parentId, llmOk) # "ok" THEN "PipelineOrchestratorError"
    ELSE "ok"

\* PipelineOrchestrator.branch_from_conversation
BranchFromConversation(parentId, rawNames, llmOk) ==
    LET result == BranchFromConversationResult(parentId, llmOk)
    IN  /\ budget.growth > 0
        /\ Len(rawNames) <= budget.batch
        /\ result = "ok" \/ rawNames = <<>>
        /\ budget' = IF result = "ok" THEN Spend("growth") ELSE budget
        /\ clock' = IF result = "ok" THEN clock + 1 ELSE clock
        /\ last' = Call("branch_from_conversation",
                      GrowthArgs(parentId, rawNames, llmOk,
                                 IF result = "InvalidStateError" THEN 0
                                 ELSE CompletionCalls(GenerateResult(parentId, llmOk))),
                      result)
        /\ IF result = "ok" THEN GenerateWrites(parentId, rawNames)
           ELSE UNCHANGED <<sessionVars, treeVars, transcriptDoc>>

----------------------------------------------------------------------------
(* Conversation memory recorder: transcript.json *)

NewTranscriptEntry(role, content, branchName, selfId, selfName) ==
    [turn |-> 0, phase |-> "conversation", role |-> role, selfName |-> selfName,
     selfId |-> selfId, branchName |-> branchName, content |-> content]

\* _append_transcript_entries: the entries get the turns len + 1, len + 2, ...
RECURSIVE AppendTranscriptEntries(_, _)
AppendTranscriptEntries(transcript, entries) ==
    IF entries = <<>> THEN transcript
    ELSE AppendTranscriptEntries(
             Append(transcript, [Head(entries) EXCEPT !.turn = Len(transcript) + 1]),
             Tail(entries))

\* a trim that keeps the oldest entries
TrimTranscriptKeepOldest(transcript) ==
    IF Len(transcript) <= MaxTranscriptEntries THEN transcript
    ELSE [i \in 1..MaxTranscriptEntries |-> [transcript[i] EXCEPT !.turn = i]]

\* _trim_transcript
TrimTranscript(transcript) ==
    IF Len(transcript) <= MaxTranscriptEntries THEN transcript
    ELSE LET overflow == Len(transcript) - MaxTranscriptEntries
             kept == SubSeq(transcript, overflow + 1, Len(transcript))
         IN  [i \in 1..Len(kept) |-> [kept[i] EXCEPT !.turn = i]]

\* the idempotency guard of append_conversation_turn
IsDuplicateFinalPair(transcript, branchName, selfId, cleanedUser, cleanedAssistant) ==
    /\ Len(transcript) >= 2
    /\ LET lastUser == transcript[Len(transcript) - 1]
           lastAssistant == transcript[Len(transcript)]
       IN  /\ lastUser.phase = "conversation"
           /\ lastAssistant.phase = "conversation"
           /\ lastUser.role = "user"
           /\ lastAssistant.role = "assistant"
           /\ lastUser.content = cleanedUser
           /\ lastAssistant.content = cleanedAssistant
           /\ lastUser.selfId = selfId
           /\ lastAssistant.selfId = selfId
           /\ lastUser.branchName = branchName
           /\ lastAssistant.branchName = branchName

\* a guard that compares the texts as received, not as stored
AppendTurnOutcomeRawTexts(transcript, branchName, selfId, userText, assistantText) ==
    IF Strip(userText) = <<>> \/ Strip(assistantText) = <<>> THEN "skipped_blank"
    ELSE IF IsDuplicateFinalPair(transcript, branchName, selfId, userText, assistantText)
    THEN "skipped_duplicate"
    ELSE "appended"

\* which way append_conversation_turn goes
AppendTurnOutcome(transcript, branchName, selfId, userText, assistantText) ==
    IF Strip(userText) = <<>> \/ Strip(assistantText) = <<>> THEN "skipped_blank"
    ELSE IF IsDuplicateFinalPair(transcript, branchName, selfId,
                                 Strip(userText), Strip(assistantText))
    THEN "skipped_duplicate"
    ELSE "appended"

\* append_conversation_turn: the transcript it leaves on disk
AppendConversationTurn(transcript, branchName, selfId, selfName, userText, assistantText) ==
    IF AppendTurnOutcome(transcript, branchName, selfId, userText, assistantText) # "appended"
    THEN transcript
    ELSE TrimTranscript(AppendTranscriptEntries(transcript,
            << NewTranscriptEntry("user", Strip(userText), branchName, selfId, selfName),
               NewTranscriptEntry("assistant", Strip(assistantText), branchName, selfId,
                                  selfName) >>))

\* ContextResolver.find_branch_for_self: the branch name, or the error raised
NoNodeForSelf == <<"error: no memory node for self">>
NotABranchHead == <<"error: node is not a branch head">>
InvalidBranchName == <<"error: branch has no valid name">>

\* the branch lookup answering with the first branch when the node heads none
FindBranchForSelfFirstBranch(nodes, branches, selfId) ==
    IF NodeIdsForSelf(nodes, selfId) = {} THEN NoNodeForSelf
    ELSE LET target == CHOOSE n \in NodeIdsForSelf(nodes, selfId) : TRUE
             heads == {j \in 1..Len(branches) : branches[j].headNodeId = target}
         IN  IF heads = {}
             THEN (IF branches = <<>> THEN NotABranchHead ELSE branches[1].name)
             ELSE branches[CHOOSE j \in heads : \A k \in heads : j <= k].name

FindBranchForSelf(nodes, branches, selfId) ==
    IF NodeIdsForSelf(nodes, selfId) = {} THEN NoNodeForSelf
    ELSE LET target == CHOOSE n \in NodeIdsForSelf(nodes, selfId) : TRUE
             heads == {j \in 1..Len(branches) : branches[j].headNodeId = target}
         IN  IF heads = {} THEN NotABranchHead
             ELSE LET name == branches[CHOOSE j \in heads : \A k \in heads : j <= k].name
                  IN  IF name = <<>> THEN InvalidBranchName ELSE name

ConversationReplyResult(selfId, userText, assistantText) ==
    LET branchName == FindBranchForSelf(nodeFiles, branchesDoc, selfId)
    IN  IF DOMAIN nodeFiles = {} THEN "HTTP404"
        ELSE IF branchName \in {NoNodeForSelf, NotABranchHead, InvalidBranchName}
        THEN "HTTP404"
        ELSE AppendTurnOutcome(transcriptDoc, branchName, selfId, userText, assistantText)

\* POST /conversation/reply: resolve the branch of the self, get the reply,
\* persist the turn with the name of the self card at the branch head
ConversationReply(selfId, userText, assistantText) ==
    LET result == ConversationReplyResult(selfId, userText, assistantText)
        branchName == FindBranchForSelf(nodeFiles, branchesDoc, selfId)
        node == nodeFiles[CHOOSE n \in NodeIdsForSelf(nodeFiles, selfId) : TRUE]
    IN  /\ budget.append > 0
        /\ last' = Call("append_turn",
                        [selfId |-> selfId, userText |-> userText,
                         assistantText |-> assistantText], result)
        /\ budget' = IF result = "appended" THEN Spend("append") ELSE budget
        /\ transcriptDoc' =
              IF result = "HTTP404" THEN transcriptDoc
              ELSE AppendConversationTurn(transcriptDoc, branchName, selfId,
                                          node.selfCard.name, userText, assistantText)
        /\ UNCHANGED <<sessionVars, treeVars, clock>>

----------------------------------------------------------------------------
(* Conversation memory recorder: insight extraction *)

\* Python truthiness of an optional string
Truthy(x) == x # NullSeq /\ x # <<>>

\* the branch/self filter shared by the transcript scans
EntryInScope(entry, branchName, selfId) ==
    /\ entry.phase = "conversation"
    /\ ~(Truthy(branchName) /\ Truthy(entry.branchName) /\ entry.branchName # branchName)
    /\ ~(Truthy(selfId) /\ Truthy(entry.selfId) /\ entry.selfId # selfId)

\* _select_branch_conversation_entries: the positions selected
SelectBranchConversationEntries(transcript, branchName, selfId) ==
    {i \in 1..Len(transcript) :
        /\ EntryInScope(transcript[i], branchName, selfId)
        /\ transcript[i].role \in {"user", "assistant"}
        /\ Strip(transcript[i].content) # <<>>}

InsightNotePrefix == "Transcript insight ["

\* f"Transcript insight [{type}]: {element}"
InsightNote(insight) == <<InsightNotePrefix>> \o insight.type \o <<"]: ">> \o insight.element

IsInsightNote(note) == note # <<>> /\ Head(note) = InsightNotePrefix

SetMax(S) == IF S = {} THEN 0 ELSE CHOOSE m \in S : \A x \in S : x <= m

\* _has_unanalyzed_conversation
HasUnanalyzedConversation(transcript, branchName, selfId) ==
    LET scope == {i \in 1..Len(transcript) : EntryInScope(transcript[i], branchName, selfId)}
        latestConversationTurn ==
            SetMax({transcript[i].turn : i \in {j \in scope :
                        transcript[j].role \in {"user", "assistant"}}})
        latestMemoryTurn ==
            SetMax({transcript[i].turn : i \in {j \in scope :
                        transcript[j].role = "memory" /\ IsInsightNote(transcript[j].content)}})
    IN  latestConversationTurn > latestMemoryTurn

RECURSIVE CollapseSpaces(_)
CollapseSpaces(s) ==
    IF Len(s) < 2 THEN s
    ELSE IF s[1] = " " /\ s[2] = " " THEN CollapseSpaces(Tail(s))
    ELSE <<Head(s)>> \o CollapseSpaces(Tail(s))

\* _clean_text: " ".join(value.split()).strip()
CleanText(s) == Strip(CollapseSpaces(s))

\* a key that keeps the case of its parts
InsightKeyCaseSensitive(type, element) == Strip(type) \o <<"::">> \o Strip(element)

\* _insight_key
InsightKey(type, element) == Lower(Strip(type)) \o <<"::">> \o Lower(Strip(element))

RECURSIVE DedupeFrom(_, _, _)
DedupeFrom(items, i, seen) ==
    IF i > Len(items) THEN <<>>
    ELSE LET key == InsightKey(items[i].type, items[i].element)
         IN  IF key = <<"signal", "::">> \/ key \in seen
             THEN DedupeFrom(items, i + 1, seen)
             ELSE <<items[i]>> \o DedupeFrom(items, i + 1, seen \cup {key})

\* _dedupe_insights
DedupeInsights(items) == DedupeFrom(items, 1, {})

\* _parse_insights on the items of the completion's JSON payload
ParseInsights(rawItems) ==
    LET cleaned == [i \in 1..Len(rawItems) |->
                       [type |-> IF CleanText(rawItems[i].type) = <<>> THEN <<"signal">>
                                 ELSE CleanText(rawItems[i].type),
                        element |-> CleanText(rawItems[i].element)]]
        kept == SelectSeqIdx(cleaned, {i \in 1..Len(cleaned) : cleaned[i].element # <<>>}, 1)
    IN  DedupeInsights(kept)

\* _existing_insight_keys
ExistingInsightKeys(facts) ==
    {InsightKey(IF CleanText(facts[i].type) = <<>> THEN <<"signal">> ELSE CleanText(facts[i].type),
                CleanText(facts[i].fact)) :
        i \in {j \in 1..Len(facts) : /\ facts[j].source = "transcript_analysis"
                                     /\ CleanText(facts[j].fact) # <<>>}}

InsightFact(insight) ==
    [fact |-> insight.element, type |-> insight.type, source |-> "transcript_analysis"]

\* the loop of _persist_insights: the insights added, from insight i on
RECURSIVE AddedInsights(_, _, _)
AddedInsights(insights, i, existingKeys) ==
    IF i > Len(insights) THEN <<>>
    ELSE LET key == InsightKey(insights[i].type, insights[i].element)
         IN  IF key \in existingKeys THEN AddedInsights(insights, i + 1, existingKeys)
             ELSE <<insights[i]>> \o AddedInsights(insights, i + 1, existingKeys \cup {key})

RECURSIVE AppendNewNotes(_, _)
AppendNewNotes(notes, added) ==
    IF added = <<>> THEN notes
    ELSE LET note == InsightNote(Head(added))
         IN  AppendNewNotes(IF note \in SeqRange(notes) THEN notes ELSE Append(notes, note),
                            Tail(added))

\* _memory_entry_exists
MemoryEntryExists(transcript, branchName, selfId, content) ==
    \E i \in 1..Len(transcript) :
        /\ transcript[i].phase = "conversation"
        /\ transcript[i].role = "memory"
        /\ transcript[i].content = content
        /\ transcript[i].branchName = branchName
        /\ ~(Truthy(selfId) /\ Truthy(transcript[i].selfId) /\ transcript[i].selfId # selfId)

RECURSIVE AppendMemoryEntries(_, _, _, _, _)
AppendMemoryEntries(transcript, added, branchName, selfId, selfName) ==
    IF added = <<>> THEN transcript
    ELSE LET note == InsightNote(Head(added))
             next == IF MemoryEntryExists(transcript, branchName, selfId, note)
                     THEN transcript
                     ELSE AppendTranscriptEntries(transcript,
                              <<NewTranscriptEntry("memory", note, branchName, selfId, selfName)>>)
         IN  AppendMemoryEntries(next, Tail(added), branchName, selfId, selfName)

\* _resolve_branch_head_node_id: NullSeq when no branch of that name has a head
ResolveBranchHeadNodeId(branches, branchName) ==
    LET hits == {j \in 1..Len(branches) :
                    branches[j].name = branchName /\ Truthy(branches[j].headNodeId)}
    IN  IF hits = {} THEN NullSeq
        ELSE branches[CHOOSE j \in hits : \A k \in hits : j <= k].headNodeId

\* facts bounded from the wrong end: the oldest are kept
BoundFactsKeepOldest(facts) == SubSeq(facts, 1, Min(Len(facts), MaxFactsPerNode))

\* facts bounded one short of the maximum
BoundFactsOneShort(facts) == LastN(facts, MaxFactsPerNode - 1)

\* facts[-max_facts_per_node:]
BoundFacts(facts) == PySliceLast(facts, MaxFactsPerNode)

\* notes[-max_notes_per_node:]
BoundNotes(notes) == PySliceLast(notes, MaxNotesPerNode)

\* the node _persist_insights writes
NodeWithInsights(node, added) ==
    [node EXCEPT
        !.notes = BoundNotes(AppendNewNotes(node.notes, added)),
        !.facts = BoundFacts(node.facts \o [i \in 1..Len(added) |-> InsightFact(added[i])])]

\* _sync_session_memory_nodes: replace the copy of the node, or append it
SyncSessionMemoryNode(mirror, node) ==
    IF ~mirror.present THEN mirror
    ELSE LET hits == {i \in 1..Len(mirror.items) : mirror.items[i].id = node.id}
         IN  IF hits = {} THEN SomeList(Append(mirror.items, node))
             ELSE LET first == CHOOSE i \in hits : \A k \in hits : i <= k
                  IN  SomeList([mirror.items EXCEPT ![first] = node])

\* which way analyze_and_persist_transcript_insights goes
AnalyzeOutcome(branchName, selfId, apiKey, rawItems) ==
    LET head == ResolveBranchHeadNodeId(branchesDoc, branchName)
    IN  IF Strip(apiKey) = <<>> THEN "no_api_key"
        ELSE IF transcriptDoc = <<>> THEN "no_transcript"
        ELSE IF Cardinality(SelectBranchConversationEntries(transcriptDoc, branchName, selfId)) < 2
        THEN "too_few_entries"
        ELSE IF ~HasUnanalyzedConversation(transcriptDoc, branchName, selfId)
        THEN "nothing_new"
        ELSE IF ParseInsights(rawItems) = <<>> THEN "no_insights"
        ELSE IF head = NullSeq \/ head \notin DOMAIN nodeFiles THEN "no_head_node"
        ELSE IF AddedInsights(ParseInsights(rawItems), 1,
                              ExistingInsightKeys(nodeFiles[head].facts)) = <<>>
        THEN "nothing_added"
        ELSE "persisted"

\* the outcomes in which the completion service was called
AnalyzeCalledService == {"no_insights", "no_head_node", "nothing_added", "persisted"}

\* analyze_and_persist_transcript_insights for a branch and the self at its
\* head (as the backfill CLI calls it)
AnalyzeBranch(branchName, apiKey, rawItems) ==
    LET head == ResolveBranchHeadNodeId(branchesDoc, branchName)
        selfCard == nodeFiles[head].selfCard
        result == AnalyzeOutcome(branchName, selfCard.id, apiKey, rawItems)
        insights == ParseInsights(rawItems)
        added == AddedInsights(insights, 1, ExistingInsightKeys(nodeFiles[head].facts))
        node == NodeWithInsights(nodeFiles[head], added)
    IN  /\ budget.analyze > 0 \/ (budget.rerun /\ result # "persisted")
        /\ head # NullSeq /\ head \in DOMAIN nodeFiles
        /\ result \in AnalyzeCalledService \/ rawItems = <<>>
        /\ last' = Call("analyze", [branchName |-> branchName, selfId |-> selfCard.id,
                                    apiKey |-> apiKey, rawItems |-> rawItems], result)
        /\ budget' = IF result = "persisted" THEN Spend("analyze") ELSE budget
        /\ IF result = "persisted"
           THEN /\ nodeFiles' = PutNode(nodeFiles, node)
                /\ sessMemoryNodes' = SyncSessionMemoryNode(sessMemoryNodes, node)
                /\ transcriptDoc' = TrimTranscript(AppendMemoryEntries(
                                        transcriptDoc, added, branchName, selfCard.id,
                                        selfCard.name))
           ELSE UNCHANGED <<nodeFiles, sessMemoryNodes, transcriptDoc>>
        /\ UNCHANGED <<sessProfile, sessCurrentSelf, sessStatus, sessTranscriptLen,
                       futureSelvesFull, explorationPaths, sessMemoryBranches, branchesDoc,
                       clock>>

I1 == [type |-> <<"Risk">>, element |-> <<"e1">>]
I2 == [type |-> <<"risk">>, element |-> <<" ", "e1">>]
I3 == [type |-> <<"risk">>, element |-> <<"e2">>]
I4 == [type |-> <<"Home">>, element |-> <<"e3">>]

\* two insights of different keys whose notes read the same
I5 == [type |-> <<"a">>, element |-> <<"b", "]: ", "c">>]
I6 == [type |-> <<"a", "]: ", "b">>, element |-> <<"c">>]

\* the item lists the completion service may answer with
InsightBatches == { <<>>, <<I1, I2>>, <<I3, I4>>, <<I5>>, <<I6>> }

ApiKeys == { <<"key">>, <<" ">> }

UnknownSelfId == <<"unknown">>

Batches == SeqsUpTo(Names, MaxBatch)

Next ==
    \/ \E filled \in FilledChoices, messages \in {InterviewMessages} : InterviewReply(filled, messages)
    \/ \E generated \in BOOLEAN : CompleteOnboarding(generated)
    \/ \E parentId \in {NullSeq, UnknownSelfId} \cup DOMAIN futureSelvesFull,
          rawNames \in Batches, llmOk \in BOOLEAN :
            GenerateFutureSelves(parentId, rawNames, llmOk)
    \/ \E rawNames \in Batches, llmOk \in BOOLEAN :
            InitializeExploration(rawNames, llmOk)
    \/ \E parentId \in {UnknownSelfId} \cup DOMAIN futureSelvesFull,
          rawNames \in Batches, llmOk \in BOOLEAN :
            BranchFromConversation(parentId, rawNames, llmOk)
    \/ \E selfId \in {sessCurrentSelf.id, UnknownSelfId} \cup DOMAIN futureSelvesFull,
          userText \in UserTexts, assistantText \in AssistantTexts :
            ConversationReply(selfId, userText, assistantText)
    \/ \E j \in 1..Len(branchesDoc), apiKey \in ApiKeys, rawItems \in InsightBatches :
            AnalyzeBranch(branchesDoc[j].name, apiKey, rawItems)

Spec == Init /\ [][Next]_vars

----------------------------------------------------------------------------
(* Pipeline status *)

\* a session document without the key "status"
NoStatus == "absent"

\* the labels the backend stores in session_data["status"]
StatusLabels == {"onboarding", "ready_for_future_self_generation", "selection"}

\* the self ids of the conversation entries, as the gating loop collects them
SelvesWithConversation(transcript) ==
    {transcript[i].selfId :
        i \in {k \in 1..Len(transcript) :
                 transcript[k].phase = "conversation" /\ Truthy(transcript[k].selfId)}}

\* a status report whose actions follow the stored label
GetPipelineStatusTrustingPhase(status, currentSelf, full, transcript) ==
    LET withConversation == SelvesWithConversation(transcript)
        phase == IF status = NoStatus THEN "onboarding" ELSE status
    IN  [phase |-> phase,
         status |-> status,
         available_actions |->
             IF phase = "onboarding" THEN <<"complete_onboarding">>
             ELSE IF phase = "ready_for_future_self_generation"
             THEN <<"initialize_exploration">>
             ELSE <<"start_conversation">>
                  \o (IF withConversation # {} THEN <<"branch_from_conversation">> ELSE <<>>),
         future_selves_count |-> Cardinality(DOMAIN full),
         exploration_depth |-> SetMax({full[k].depthLevel : k \in DOMAIN full}),
         conversation_branches |->
             {[self_id |-> x, name |-> full[x].name, depth |-> full[x].depthLevel] :
                 x \in withConversation \cap DOMAIN full}]

\* PipelineOrchestrator.get_pipeline_status as a function of what it loads
GetPipelineStatus(status, currentSelf, full, transcript) ==
    LET withConversation ==
            IF currentSelf = NoCard \/ DOMAIN full = {} THEN {}
            ELSE SelvesWithConversation(transcript)
    IN  [phase |-> IF status = NoStatus THEN "onboarding" ELSE status,
         status |-> status,
         available_actions |->
             IF currentSelf = NoCard THEN <<"complete_onboarding">>
             ELSE IF DOMAIN full = {} THEN <<"initialize_exploration">>
             ELSE <<"start_conversation">>
                  \o (IF withConversation # {} THEN <<"branch_from_conversation">> ELSE <<>>),
         future_selves_count |-> Cardinality(DOMAIN full),
         exploration_depth |-> SetMax({full[k].depthLevel : k \in DOMAIN full}),
         conversation_branches |->
             {[self_id |-> x, name |-> full[x].name, depth |-> full[x].depthLevel] :
                 x \in withConversation \cap DOMAIN full}]

\* get_pipeline_status read twice: on the session, and on the same session with
\* another status label stored
GetStatus(otherStatus) ==
    /\ last' = Call("get_pipeline_status", [otherStatus |-> otherStatus],
                    [own |-> GetPipelineStatus(sessStatus, sessCurrentSelf,
                                               futureSelvesFull, transcriptDoc),
                     other |-> GetPipelineStatus(otherStatus, sessCurrentSelf,
                                                 futureSelvesFull, transcriptDoc)])
    /\ UNCHANGED <<sessionVars, treeVars, transcriptDoc, clock, budget>>

----------------------------------------------------------------------------
(* The backend with status reads, on one shallow session *)

StatusBudget ==
    [interview |-> MaxInterviewSteps, growth |-> 1, batch |-> MaxBatch,
     append |-> 1, analyze |-> 1, rerun |-> FALSE]

InitStatus ==
    /\ sessProfile = -1
    /\ sessCurrentSelf = NoCard
    /\ sessStatus = "onboarding"
    /\ sessTranscriptLen = 0
    /\ futureSelvesFull = <<>>
    /\ explorationPaths = <<>>
    /\ sessMemoryNodes = NoList
    /\ sessMemoryBranches = NoList
    /\ nodeFiles = <<>>
    /\ branchesDoc = <<>>
    /\ transcriptDoc = <<>>
    /\ clock = 1
    /\ budget = StatusBudget
    /\ last = Call("start_interview", [none |-> TRUE], "ok")

NextStatus ==
    \/ Next
    \/ \E otherStatus \in StatusLabels \cup {NoStatus} : GetStatus(otherStatus)

SpecStatus == InitStatus /\ [][NextStatus]_vars

----------------------------------------------------------------------------
(* Conversation replies, streamed and not, with a storage that may fail *)

MaxChunks == 2

\* the text fragments the completion service may stream
ChunkTexts == { <<"h", "i">>, <<" ">>, <<>> }

\* the history a client sends along: one earlier exchange
ClientHistories ==
    { << [role |-> "user", content |-> <<"y">>],
         [role |-> "assistant", content |-> <<"ok">>] >> }

\* "".join(chunks)
RECURSIVE Join(_)
Join(chunks) == IF chunks = <<>> THEN <<>> ELSE Head(chunks) \o Join(Tail(chunks))

\* the status that makes a storage fault fail the request
ConversationReplyStatusStorageFails(branchName, userText, replyText, storageOk) ==
    IF branchName \in {NoNodeForSelf, NotABranchHead, InvalidBranchName} THEN "404"
    ELSE IF Strip(userText) = <<>> THEN "500"
    ELSE IF Strip(replyText) = <<>> THEN "502"
    ELSE IF ~storageOk THEN "500"
    ELSE "200"

\* conversation_reply: the status answered; compose_messages raises ValueError
\* on a blank message, reply() raises RuntimeError on a blank completion
ConversationReplyStatus(branchName, userText, replyText, storageOk) ==
    IF branchName \in {NoNodeForSelf, NotABranchHead, InvalidBranchName} THEN "404"
    ELSE IF Strip(userText) = <<>> THEN "500"
    ELSE IF Strip(replyText) = <<>> THEN "502"
    ELSE "200"

\* what append_conversation_turn leaves when the storage may refuse the call
PersistTurn(transcript, branchName, selfId, selfName, userText, assistantText, storageOk) ==
    IF storageOk
    THEN AppendConversationTurn(transcript, branchName, selfId, selfName,
                                userText, assistantText)
    ELSE transcript

\* POST /conversation/reply with the completion replyText (blank when the
\* service fails) and a storage that works or not
ConversationReplyCall(selfId, userText, replyText, history, storageOk) ==
    LET branchName == FindBranchForSelf(nodeFiles, branchesDoc, selfId)
        status == IF DOMAIN nodeFiles = {} THEN "404"
                  ELSE ConversationReplyStatus(branchName, userText, replyText, storageOk)
        node == nodeFiles[CHOOSE n \in NodeIdsForSelf(nodeFiles, selfId) : TRUE]
        after == IF status = "200"
                 THEN PersistTurn(transcriptDoc, branchName, selfId, node.selfCard.name,
                                  userText, Strip(replyText), storageOk)
                 ELSE transcriptDoc
    IN  /\ budget.append > 0
        /\ last' = Call("conversation_reply",
                        [selfId |-> selfId, userText |-> userText, replyText |-> replyText,
                         history |-> history, storageOk |-> storageOk,
                         before |-> transcriptDoc],
                        [status |-> status,
                         reply |-> IF status = "200" THEN Strip(replyText) ELSE <<>>,
                         history |-> IF status = "200"
                                     THEN history \o << [role |-> "user", content |-> userText],
                                                        [role |-> "assistant",
                                                         content |-> Strip(replyText)] >>
                                     ELSE <<>>])
        /\ transcriptDoc' = after
        /\ budget' = IF after # transcriptDoc THEN Spend("append") ELSE budget
        /\ UNCHANGED <<sessionVars, treeVars, clock>>

StreamInFlight == {"stream_open", "stream_chunk"}

\* POST /conversation/reply-stream up to the StreamingResponse: the branch and
\* the context are resolved, nothing is sent yet
StreamOpen(selfId, userText) ==
    LET branchName == FindBranchForSelf(nodeFiles, branchesDoc, selfId)
        found == /\ DOMAIN nodeFiles # {}
                 /\ branchName \notin {NoNodeForSelf, NotABranchHead, InvalidBranchName}
    IN  /\ budget.append > 0
        /\ last.op \notin StreamInFlight
        /\ last' = Call(IF found THEN "stream_open" ELSE "stream_reply",
                        [selfId |-> selfId, userText |-> userText, before |-> transcriptDoc],
                        [final |-> IF found THEN "open" ELSE "HTTP404",
                         chunks |-> <<>>, reply |-> <<>>, storageOk |-> TRUE,
                         ended |-> "no"])
        /\ UNCHANGED <<sessionVars, treeVars, transcriptDoc, clock, budget>>

\* one fragment arrives: stream_reply skips an empty one, the generator yields
\* the others as chunk events
StreamChunk(chunk) ==
    /\ last.op \in StreamInFlight
    /\ Strip(last.args.userText) # <<>>
    /\ Len(last.result.chunks) < MaxChunks
    /\ chunk # <<>>
    /\ last' = Call("stream_chunk", last.args,
                    [last.result EXCEPT !.chunks = Append(@, chunk)])
    /\ UNCHANGED <<sessionVars, treeVars, transcriptDoc, clock, budget>>

\* the transcript left by a stream that persists what it has when it stops
StreamEndTranscriptPartial(transcript, final, branchName, selfId, selfName, userText, chunks, storageOk) ==
    IF Strip(Join(chunks)) # <<>> /\ Strip(userText) # <<>>
    THEN PersistTurn(transcript, branchName, selfId, selfName, userText,
                     Strip(Join(chunks)), storageOk)
    ELSE transcript

\* the transcript _stream_conversation_reply leaves: append_conversation_turn is
\* reached only after the loop over the fragments has ended
StreamEndTranscript(transcript, final, branchName, selfId, selfName, userText, chunks, storageOk) ==
    IF final = "done"
    THEN PersistTurn(transcript, branchName, selfId, selfName, userText,
                     Strip(Join(chunks)), storageOk)
    ELSE transcript

\* the stream ends: the service is done (ended = "completed"), raises
\* ("service_error"), or the client goes away at a yield ("client_gone")
StreamEnd(ended, storageOk) ==
    LET selfId == last.args.selfId
        branchName == FindBranchForSelf(nodeFiles, branchesDoc, selfId)
        node == nodeFiles[CHOOSE n \in NodeIdsForSelf(nodeFiles, selfId) : TRUE]
        fullReply == Strip(Join(last.result.chunks))
        final == IF ended = "client_gone" THEN "interrupted"
                 ELSE IF ended = "service_error" THEN "error"
                 ELSE IF Strip(last.args.userText) = <<>> \/ fullReply = <<>> THEN "error"
                 ELSE "done"
        after == StreamEndTranscript(transcriptDoc, final, branchName, selfId,
                                     node.selfCard.name, last.args.userText,
                                     last.result.chunks, storageOk)
    IN  /\ last.op \in StreamInFlight
        /\ ended = "client_gone" => last.result.chunks # <<>>
        /\ storageOk \/ final = "done"
        /\ last' = Call("stream_reply", last.args,
                        [final |-> final, chunks |-> last.result.chunks,
                         reply |-> IF final = "done" THEN fullReply ELSE <<>>,
                         storageOk |-> storageOk, ended |-> ended])
        /\ transcriptDoc' = after
        /\ budget' = IF after # transcriptDoc THEN Spend("append") ELSE budget
        /\ UNCHANGED <<sessionVars, treeVars, clock>>

ConversationBudget ==
    [interview |-> MaxInterviewSteps, growth |-> 1, batch |-> 1,
     append |-> 2, analyze |-> 1, rerun |-> FALSE]

InitConversation ==
    /\ sessProfile = -1
    /\ sessCurrentSelf = NoCard
    /\ sessStatus = "onboarding"
    /\ sessTranscriptLen = 0
    /\ futureSelvesFull = <<>>
    /\ explorationPaths = <<>>
    /\ sessMemoryNodes = NoList
    /\ sessMemoryBranches = NoList
    /\ nodeFiles = <<>>
    /\ branchesDoc = <<>>
    /\ transcriptDoc = <<>>
    /\ clock = 1
    /\ budget = ConversationBudget
    /\ last = Call("start_interview", [none |-> TRUE], "ok")

NextConversation ==
    \/ last.op \notin StreamInFlight /\ Next
    \/ \E selfId \in {UnknownSelfId} \cup DOMAIN futureSelvesFull,
          userText \in UserTexts, replyText \in AssistantTexts,
          history \in ClientHistories, storageOk \in BOOLEAN :
            /\ last.op \notin StreamInFlight
            /\ ConversationReplyCall(selfId, userText, replyText, history, storageOk)
    \/ \E selfId \in {UnknownSelfId} \cup DOMAIN futureSelvesFull, userText \in UserTexts :
            StreamOpen(selfId, userText)
    \/ \E chunk \in ChunkTexts : StreamChunk(chunk)
    \/ \E ended \in {"completed", "service_error", "client_gone"}, storageOk \in BOOLEAN :
            StreamEnd(ended, storageOk)

SpecConversation == InitConversation /\ [][NextConversation]_vars

----------------------------------------------------------------------------
(* _trim_transcript as a function of any transcript *)

TrimEntries ==
    {[NewTranscriptEntry(role, <<"x">>, <<"calm">>, <<"s">>, <<"Calm">>) EXCEPT !.turn = t] :
        role \in {"user", "assistant"}, t \in {1, 7}}

TrimInputs == SeqsUpTo(TrimEntries, MaxTrimInput)

NoBudget ==
    [interview |-> 0, growth |-> 0, batch |-> 0, append |-> 0, analyze |-> 0, rerun |-> FALSE]

InitTrim ==
    /\ sessProfile = -1
    /\ sessCurrentSelf = NoCard
    /\ sessStatus = "onboarding"
    /\ sessTranscriptLen = 0
    /\ futureSelvesFull = <<>>
    /\ explorationPaths = <<>>
    /\ sessMemoryNodes = NoList
    /\ sessMemoryBranches = NoList
    /\ nodeFiles = <<>>
    /\ branchesDoc = <<>>
    /\ transcriptDoc \in TrimInputs
    /\ clock = 1
    /\ budget = NoBudget
    /\ last = Call("load_transcript", [before |-> <<>>], "ok")

TrimStep ==
    /\ last.op = "load_transcript"
    /\ last' = Call("trim", [before |-> transcriptDoc], "ok")
    /\ transcriptDoc' = TrimTranscript(transcriptDoc)
    /\ UNCHANGED <<sessionVars, treeVars, clock, budget>>

NextTrim == TrimStep

SpecTrim == InitTrim /\ [][NextTrim]_vars

----------------------------------------------------------------------------
(* Properties *)

GrowthOps == {"generate_future_selves", "initialize_exploration", "branch_from_conversation"}

\* following parentId from node n ends at a node without parent, visiting no node twice
RECURSIVE ReachesRoot(_, _, _)
ReachesRoot(nodes, n, seen) ==
    IF n \notin DOMAIN nodes THEN FALSE
    ELSE IF nodes[n].parentId = NullSeq THEN TRUE
    ELSE IF nodes[n].parentId \in seen \cup {n} THEN FALSE
    ELSE ReachesRoot(nodes, nodes[n].parentId, seen \cup {n})

\* C1: from every memory node, following the parent links reaches the root node
\* (the node without parent) without visiting a node twice.
C1_ParentLinksReachRoot ==
    \A n \in DOMAIN nodeFiles : ReachesRoot(nodeFiles, n, {})

\* two growth calls have built a node whose parent is itself a branch node
C1_Witness ==
    \E n \in DOMAIN nodeFiles :
        /\ nodeFiles[n].parentId # NullSeq
        /\ nodeFiles[n].parentId \in DOMAIN nodeFiles
        /\ nodeFiles[nodeFiles[n].parentId].parentId # NullSeq

\* C2: a stored future self has depthLevel 1 when its parentSelfId is null, and
\* its parent's depthLevel plus one otherwise; the current self has depthLevel 0.
C2_DepthFollowsParent ==
    /\ sessCurrentSelf # NoCard => sessCurrentSelf.depthLevel = 0
    /\ \A id \in DOMAIN futureSelvesFull :
          LET card == futureSelvesFull[id]
          IN  IF card.parentSelfId = NullSeq THEN card.depthLevel = 1
              ELSE /\ card.parentSelfId \in DOMAIN futureSelvesFull
                   /\ card.depthLevel = futureSelvesFull[card.parentSelfId].depthLevel + 1

\* a secondary self is stored under a root-level self
C2_Witness ==
    \E id \in DOMAIN futureSelvesFull :
        /\ futureSelvesFull[id].parentSelfId \in DOMAIN futureSelvesFull
        /\ futureSelvesFull[id].depthLevel = 2

\* C3: no two branch records of branches.json have the same name.
C3_BranchNamesUnique ==
    \A i, j \in 1..Len(branchesDoc) :
        branchesDoc[i].name = branchesDoc[j].name => i = j

\* a growth call met a name whose slug was already a branch name: the self is
\* stored but no node was written for it
C3_Witness ==
    /\ last.op \in GrowthOps
    /\ last.result = "ok"
    /\ Len(branchesDoc) >= 2
    /\ \E id \in DOMAIN futureSelvesFull :
          /\ NodeIdsForSelf(nodeFiles, id) = {}
          /\ Slugify(futureSelvesFull[id].name) \in BranchNames(branchesDoc)

MirrorIds(mirror) == {mirror.items[i].id : i \in 1..Len(mirror.items)}

\* C4: the headNodeId of every branch record is the id of a node that exists
\* in the node files and in the memoryNodes mirror of session.json.
C4_HeadsExistInFilesAndMirror ==
    \A j \in 1..Len(branchesDoc) :
        /\ branchesDoc[j].headNodeId \in DOMAIN nodeFiles
        /\ sessMemoryNodes.present
        /\ branchesDoc[j].headNodeId \in MirrorIds(sessMemoryNodes)

\* C5: once completeOnboarding has succeeded, exactly one node has no parent and
\* the branch named "root" has that node as its head.
C5_OneRootHeadOfRootBranch ==
    sessCurrentSelf # NoCard =>
        /\ Cardinality(RootNodeIds(nodeFiles)) = 1
        /\ \E j \in 1..Len(branchesDoc) : branchesDoc[j].name = RootBranchName
        /\ \A j \in 1..Len(branchesDoc) :
              branchesDoc[j].name = RootBranchName =>
                  branchesDoc[j].headNodeId \in RootNodeIds(nodeFiles)

\* onboarding is complete and growth has added branch nodes next to the root
C5_Witness ==
    /\ sessCurrentSelf # NoCard
    /\ Cardinality(DOMAIN nodeFiles) >= 3
    /\ Len(branchesDoc) >= 3

\* C6: when appendTurn is called a second time in a row with the same
\* arguments, the second call leaves the transcript as the first call left it,
\* so the two calls persist one user/assistant pair at most.
C6_RepeatedAppendPersistsOnePair ==
    [][ (/\ last.op = "append_turn"
         /\ last'.op = "append_turn"
         /\ last'.args = last.args)
        => /\ transcriptDoc' = transcriptDoc
           /\ last'.result # "appended" ]_vars

\* the second of two identical calls was recognised as a duplicate, and the
\* pair of the first call closes the transcript
C6_Witness ==
    /\ last.op = "append_turn"
    /\ last.result = "skipped_duplicate"
    /\ Len(transcriptDoc) >= 2
    /\ transcriptDoc[Len(transcriptDoc) - 1].content = Strip(last.args.userText)
    /\ transcriptDoc[Len(transcriptDoc)].content = Strip(last.args.assistantText)

\* C7: trimming a transcript of more than MaxTranscriptEntries entries keeps the
\* MaxTranscriptEntries most recent ones in their order with the turns 1..N;
\* a transcript of at most MaxTranscriptEntries entries is returned unchanged.
C7_TrimKeepsMostRecentRenumbered ==
    last.op = "trim" =>
        LET before == last.args.before
            n == Len(before)
        IN  IF n <= MaxTranscriptEntries THEN transcriptDoc = before
            ELSE /\ Len(transcriptDoc) = MaxTranscriptEntries
                 /\ \A i \in 1..MaxTranscriptEntries :
                       transcriptDoc[i] =
                           [before[n - MaxTranscriptEntries + i] EXCEPT !.turn = i]

\* a transcript longer than the maximum was trimmed and turns were rewritten
C7_Witness ==
    /\ last.op = "trim"
    /\ Len(last.args.before) > MaxTranscriptEntries
    /\ \E i \in 1..Len(transcriptDoc) :
          transcriptDoc[i].turn # last.args.before[Len(last.args.before)
                                                   - Len(transcriptDoc) + i].turn

\* C8: in transcript.json the turn numbers strictly increase with the position.
C8_TurnsStrictlyIncrease ==
    \A i, j \in 1..Len(transcriptDoc) :
        i < j => transcriptDoc[i].turn < transcriptDoc[j].turn

InsightFactsOf(node) ==
    SelectSeqIdx(node.facts,
                 {i \in 1..Len(node.facts) : node.facts[i].source = "transcript_analysis"}, 1)

OtherFactsOf(node) ==
    SelectSeqIdx(node.facts,
                 {i \in 1..Len(node.facts) : node.facts[i].source # "transcript_analysis"}, 1)

InsightNotesOf(node) ==
    SelectSeqIdx(node.notes, {i \in 1..Len(node.notes) : IsInsightNote(node.notes[i])}, 1)

OtherNotesOf(node) ==
    SelectSeqIdx(node.notes, {i \in 1..Len(node.notes) : ~IsInsightNote(node.notes[i])}, 1)

\* C9: after an analysis that reached the extraction, the branch head holds
\* the freshly extracted insights and no other transcript_analysis fact or
\* insight note, also when the fresh set is empty.
C9_AnalysisReplacesInsights ==
    (last.op = "analyze" /\ last.result \in {"persisted", "nothing_added", "no_insights"}) =>
        LET node == nodeFiles[ResolveBranchHeadNodeId(branchesDoc, last.args.branchName)]
            fresh == ParseInsights(last.args.rawItems)
        IN  /\ SeqRange(InsightFactsOf(node)) = {InsightFact(fresh[i]) : i \in 1..Len(fresh)}
            /\ SeqRange(InsightNotesOf(node)) = {InsightNote(fresh[i]) : i \in 1..Len(fresh)}
            /\ {transcriptDoc[i].content :
                    i \in {j \in 1..Len(transcriptDoc) :
                              /\ transcriptDoc[j].role = "memory"
                              /\ transcriptDoc[j].branchName = last.args.branchName
                              /\ IsInsightNote(transcriptDoc[j].content)}}
                  = {InsightNote(fresh[i]) : i \in 1..Len(fresh)}

IsSuffix(a, b) == Len(a) <= Len(b) /\ a = SubSeq(b, Len(b) - Len(a) + 1, Len(b))

AnalyzedNode(nodes) == nodes[ResolveBranchHeadNodeId(branchesDoc, last'.args.branchName)]

\* C10 as stated: an analysis leaves the facts of other sources and the notes
\* that are no insight notes exactly as they were.
C10_AnalysisKeepsOtherEntries ==
    [][ last'.op = "analyze" =>
            /\ OtherFactsOf(AnalyzedNode(nodeFiles')) = OtherFactsOf(AnalyzedNode(nodeFiles))
            /\ OtherNotesOf(AnalyzedNode(nodeFiles')) = OtherNotesOf(AnalyzedNode(nodeFiles))
      ]_vars

\* C10: an analysis never alters or reorders the facts of other sources and the
\* notes that are no insight notes; it removes some only when the list has
\* reached its configured maximum, and then the oldest ones.
C10_AnalysisDropsOnlyOldestOnOverflow ==
    [][ last'.op = "analyze" =>
            LET before == AnalyzedNode(nodeFiles)
                after == AnalyzedNode(nodeFiles')
            IN  /\ IsSuffix(OtherFactsOf(after), OtherFactsOf(before))
                /\ OtherFactsOf(after) # OtherFactsOf(before)
                       => Len(after.facts) = MaxFactsPerNode
                /\ IsSuffix(OtherNotesOf(after), OtherNotesOf(before))
                /\ OtherNotesOf(after) # OtherNotesOf(before)
                       => Len(after.notes) = MaxNotesPerNode
                /\ \A n \in DOMAIN nodeFiles \ {before.id} : nodeFiles'[n] = nodeFiles[n]
      ]_vars

\* an analysis of the root branch filled the fact list of the root node to its
\* maximum: the older of its two onboarding facts is gone, the newer is kept
C10_Witness ==
    /\ last.op = "analyze"
    /\ last.result = "persisted"
    /\ last.args.branchName = RootBranchName
    /\ LET node == nodeFiles[RootNodeId]
       IN  /\ InsightFactsOf(node) # <<>>
           /\ Len(OtherFactsOf(node)) = 1
           /\ Len(node.facts) = MaxFactsPerNode

\* C11: an analysis of a branch that directly follows a successful analysis of
\* the same branch, no conversation turn having been appended in between, does
\* not call the completion service and leaves the node files and the
\* transcript as they are.
C11_RerunWithoutNewTurnIsNoOp ==
    [][ (/\ last.op = "analyze"
         /\ last.result = "persisted"
         /\ last'.op = "analyze"
         /\ last'.args.branchName = last.args.branchName)
        => /\ last'.result \notin AnalyzeCalledService
           /\ nodeFiles' = nodeFiles
           /\ transcriptDoc' = transcriptDoc ]_vars

\* the (type, element) pair of a fact, compared without regard to case
CaseFoldedPair(fact) == <<Lower(fact.type), Lower(fact.fact)>>

\* C12: on every memory node, no two transcript_analysis facts have the same
\* (type, element) pair when compared case-insensitively.
C12_InsightFactsDistinct ==
    \A n \in DOMAIN nodeFiles :
        LET facts == InsightFactsOf(nodeFiles[n])
        IN  \A i, j \in 1..Len(facts) :
                CaseFoldedPair(facts[i]) = CaseFoldedPair(facts[j]) => i = j

\* the service answered with two items that differ in case and blanks only, and
\* one fact was written for them
C12_Witness ==
    /\ last.op = "analyze"
    /\ last.result = "persisted"
    /\ Len(last.args.rawItems) = 2
    /\ Lower(CleanText(last.args.rawItems[1].type)) = Lower(CleanText(last.args.rawItems[2].type))
    /\ last.args.rawItems[1].type # last.args.rawItems[2].type
    /\ LET node == nodeFiles[ResolveBranchHeadNodeId(branchesDoc, last.args.branchName)]
       IN  Cardinality({i \in 1..Len(node.facts) :
                           /\ node.facts[i].source = "transcript_analysis"
                           /\ Lower(node.facts[i].fact)
                                  = Lower(CleanText(last.args.rawItems[1].element))}) = 1

\* the insights an analysis adds to a node, as the call's arguments give them
NewInsightsFor(node, rawItems) ==
    AddedInsights(ParseInsights(rawItems), 1, ExistingInsightKeys(node.facts))

\* C13: an analysis that writes a node leaves at most MaxFactsPerNode facts and
\* MaxNotesPerNode notes on it; what it keeps are the newest entries, in their
\* order, of the list extended by the new insights, and entries are dropped
\* only when the list is longer than the maximum.
C13_FactsAndNotesBoundedKeepingNewest ==
    [][ (last'.op = "analyze" /\ last'.result = "persisted") =>
            LET before == AnalyzedNode(nodeFiles)
                after == AnalyzedNode(nodeFiles')
                added == NewInsightsFor(before, last'.args.rawItems)
                allFacts == before.facts \o [i \in 1..Len(added) |-> InsightFact(added[i])]
                allNotes == AppendNewNotes(before.notes, added)
            IN  /\ Len(after.facts) <= MaxFactsPerNode
                /\ Len(after.notes) <= MaxNotesPerNode
                /\ IsSuffix(after.facts, allFacts)
                /\ IsSuffix(after.notes, allNotes)
                /\ Len(after.facts) = Min(Len(allFacts), MaxFactsPerNode)
                /\ Len(after.notes) = Min(Len(allNotes), MaxNotesPerNode)
      ]_vars

\* an analysis wrote a branch node whose creation note and seed fact have been
\* pushed out by newer insights
C13_Witness ==
    /\ last.op = "analyze"
    /\ last.result = "persisted"
    /\ LET node == nodeFiles[ResolveBranchHeadNodeId(branchesDoc, last.args.branchName)]
       IN  /\ node.id # RootNodeId
           /\ Len(node.notes) = MaxNotesPerNode
           /\ Len(node.facts) = MaxFactsPerNode
           /\ OtherNotesOf(node) = <<>>
           /\ OtherFactsOf(node) = <<>>

----------------------------------------------------------------------------
(* Voice assignment as a function of the batch and of the configuration *)

Moods == {"calm", "warm", "sharp"}

\* ELEVENLABS_VOICE_POOL_JSON: mood -> voice id, "" for a mood without voice
VoicePools == [Moods -> {"", "v1", "v2"}]

DefaultVoices == {"v1", "v0"}

\* future_generation.mood_fallback_chains: none, one adjacent mood, every other mood
FallbackChains ==
    { [m \in Moods |-> <<>>],
      [m \in Moods |-> IF m = "calm" THEN <<"warm">>
                       ELSE IF m = "warm" THEN <<"sharp">> ELSE <<"calm">>],
      [m \in Moods |-> IF m = "calm" THEN <<"warm", "sharp">>
                       ELSE IF m = "warm" THEN <<"sharp", "calm">> ELSE <<"calm", "warm">>] }

InitVoice ==
    /\ sessProfile = -1
    /\ sessCurrentSelf = NoCard
    /\ sessStatus = "onboarding"
    /\ sessTranscriptLen = 0
    /\ futureSelvesFull = <<>>
    /\ explorationPaths = <<>>
    /\ sessMemoryNodes = NoList
    /\ sessMemoryBranches = NoList
    /\ nodeFiles = <<>>
    /\ branchesDoc = <<>>
    /\ transcriptDoc = <<>>
    /\ clock = 1
    /\ budget = NoBudget
    /\ \E moods \in SeqsUpTo(Moods, MaxSiblings), pool \in VoicePools,
          chains \in FallbackChains, default \in DefaultVoices :
            last = Call("load_settings",
                        [moods |-> moods, pool |-> pool, chains |-> chains,
                         default |-> default], <<>>)

AssignVoicesStep ==
    /\ last.op = "load_settings"
    /\ last' = Call("assign_voices", last.args,
                    AssignVoices(last.args.moods, {}, last.args.pool, last.args.chains,
                                 last.args.default))
    /\ UNCHANGED <<sessionVars, treeVars, transcriptDoc, clock, budget>>

NextVoice == AssignVoicesStep

SpecVoice == InitVoice /\ [][NextVoice]_vars

\* the distinct voices of a configuration, the default included
ConfiguredVoices(pool, default) == ({pool[m] : m \in Moods} \ {""}) \cup {default}

\* C14: when the pool and the default hold at least as many distinct voices as
\* the batch has siblings, the voices assigned in the batch are pairwise
\* distinct, whatever the moods.
C14_BatchVoicesDistinct ==
    (/\ last.op = "assign_voices"
     /\ Cardinality(ConfiguredVoices(last.args.pool, last.args.default))
            >= Len(last.args.moods))
    => \A i, j \in 1..Len(last.result) : last.result[i] = last.result[j] => i = j

----------------------------------------------------------------------------
(* hash_id as a function of its three arguments *)

\* names and parent ids, some holding the separator; a parent id may be None
\* (NullSeq) or the empty string
HashNames == { <<"a">>, <<"b">>, <<"a", "|", "b">> }
HashParents == { NullSeq, <<>>, <<"b">>, <<"b", "|", "c">> }
HashTimestamps == {1, 2}

HashTriples ==
    {[name |-> n, parent |-> q, timestamp |-> t] :
        n \in HashNames, q \in HashParents, t \in HashTimestamps}

InitHash ==
    /\ sessProfile = -1
    /\ sessCurrentSelf = NoCard
    /\ sessStatus = "onboarding"
    /\ sessTranscriptLen = 0
    /\ futureSelvesFull = <<>>
    /\ explorationPaths = <<>>
    /\ sessMemoryNodes = NoList
    /\ sessMemoryBranches = NoList
    /\ nodeFiles = <<>>
    /\ branchesDoc = <<>>
    /\ transcriptDoc = <<>>
    /\ clock = 1
    /\ budget = NoBudget
    /\ \E x \in HashTriples, y \in HashTriples :
            last = Call("choose_triples", [first |-> x, second |-> y], <<>>)

HashStep ==
    /\ last.op = "choose_triples"
    /\ last' = Call("hash_id", last.args,
                    << HashId(last.args.first.name, last.args.first.parent,
                              last.args.first.timestamp),
                       HashId(last.args.second.name, last.args.second.parent,
                              last.args.second.timestamp) >>)
    /\ UNCHANGED <<sessionVars, treeVars, transcriptDoc, clock, budget>>

NextHash == HashStep

SpecHash == InitHash /\ [][NextHash]_vars

\* in how many of the three components two triples differ
DifferingComponents(x, y) ==
    (IF x.name # y.name THEN 1 ELSE 0) + (IF x.parent # y.parent THEN 1 ELSE 0)
        + (IF x.timestamp # y.timestamp THEN 1 ELSE 0)

----------------------------------------------------------------------------
(* Orchestrator preconditions *)

\* C16: complete_onboarding_flow on a session without a current self succeeds
\* when at least half of the 20 profile fields are filled, exactly half
\* included, and the current-self generation answers: it stores the current
\* self, the root node and the root branch. With fewer fields, or no profile,
\* it raises InvalidStateError and writes nothing.
C16_OnboardingNeedsHalfTheProfile ==
    [][ (last'.op = "complete_onboarding" /\ sessCurrentSelf = NoCard)
        => IF sessProfile # -1 /\ 2 * sessProfile >= TotalFields
           THEN last'.args.generated
                    => /\ last'.result = "ok"
                       /\ sessCurrentSelf' # NoCard
                       /\ RootNodeId \in DOMAIN nodeFiles'
                       /\ branchesDoc' = <<RootBranch>>
           ELSE /\ last'.result = "InvalidStateError"
                /\ UNCHANGED <<sessionVars, treeVars, transcriptDoc>> ]_vars

\* onboarding completed on a profile with exactly half of the fields filled
C16_Witness ==
    /\ last.op = "complete_onboarding"
    /\ last.result = "ok"
    /\ 2 * sessProfile = TotalFields
    /\ sessCurrentSelf # NoCard

\* C17: complete_onboarding_flow on a session that already has a current self
\* raises InvalidStateError and leaves the session document, the node files and
\* the branch list unchanged; it succeeds only on a session without a current
\* self, which it gives one that is never removed, so it succeeds at most once.
C17_OnboardingCompletesAtMostOnce ==
    [][ /\ (last'.op = "complete_onboarding" /\ sessCurrentSelf # NoCard)
            => /\ last'.result = "InvalidStateError"
               /\ UNCHANGED <<sessionVars, treeVars, transcriptDoc>>
        /\ (last'.op = "complete_onboarding" /\ last'.result = "ok")
            => sessCurrentSelf = NoCard /\ sessCurrentSelf' # NoCard
        /\ sessCurrentSelf # NoCard => sessCurrentSelf' # NoCard ]_vars

\* onboarding was attempted again on a session that has its current self
C17_Witness ==
    /\ last.op = "complete_onboarding"
    /\ last.result = "InvalidStateError"
    /\ sessCurrentSelf # NoCard
    /\ RootNodeId \in DOMAIN nodeFiles

\* C18: initialize_exploration raises InvalidStateError and changes nothing
\* when the session has no current self or already has a generated future
\* self; and of two orchestrator calls of it in a row, the second does not
\* succeed when the first did (root-level growth succeeds at most once).
C18_RootGrowthAtMostOnce ==
    [][ /\ (/\ last'.op = "initialize_exploration"
            /\ (sessCurrentSelf = NoCard \/ DOMAIN futureSelvesFull # {}))
            => /\ last'.result = "InvalidStateError"
               /\ UNCHANGED <<sessionVars, treeVars, transcriptDoc>>
        /\ (/\ last.op = "initialize_exploration" /\ last.result = "ok"
            /\ last'.op = "initialize_exploration")
            => last'.result # "ok" ]_vars

\* C19: branch_from_conversation raises InvalidStateError and leaves the
\* session document, the node files, the branch list and the transcript
\* unchanged when the parent self id is unknown or the transcript has no
\* conversation entry recorded for that self.
C19_BranchNeedsKnownParentWithConversation ==
    [][ (/\ last'.op = "branch_from_conversation"
         /\ \/ last'.args.parentSelfId \notin DOMAIN futureSelvesFull
            \/ ~\E i \in 1..Len(transcriptDoc) :
                   /\ transcriptDoc[i].phase = "conversation"
                   /\ transcriptDoc[i].selfId = last'.args.parentSelfId)
        => /\ last'.result = "InvalidStateError"
           /\ UNCHANGED <<sessionVars, treeVars, transcriptDoc>> ]_vars

\* a branch was refused for a known self nobody talked to, while the transcript
\* holds a conversation with another self
C19_Witness ==
    /\ last.op = "branch_from_conversation"
    /\ last.result = "InvalidStateError"
    /\ last.args.parentSelfId \in DOMAIN futureSelvesFull
    /\ \E i \in 1..Len(transcriptDoc) : transcriptDoc[i].phase = "conversation"
    /\ ~HasConversation(transcriptDoc, last.args.parentSelfId)

\* C20: the available_actions get_pipeline_status reports do not depend on the
\* stored status label: the same session with any other label stored, or none,
\* gets the same list.
C20_ActionsIgnoreStatusLabel ==
    last.op = "get_pipeline_status"
        => last.result.own.available_actions = last.result.other.available_actions

\* status was read on a session with conversation history, against a label
\* that differs from the stored one
C20_Witness ==
    /\ last.op = "get_pipeline_status"
    /\ last.args.otherStatus # sessStatus
    /\ last.result.own.phase # last.result.other.phase
    /\ last.result.own.available_actions = <<"start_conversation", "branch_from_conversation">>

----------------------------------------------------------------------------
(* Growth: what a sequence of growth calls leaves behind *)

\* the number of ids recorded in explorationPaths under the given keys: the
\* number of selves the successful growth calls produced
RECURSIVE PathTotal(_, _)
PathTotal(paths, keys) ==
    IF keys = {} THEN 0
    ELSE LET k == CHOOSE x \in keys : TRUE
         IN  Len(paths[k]) + PathTotal(paths, keys \ {k})

\* C21: after any sequence of successful growth calls that produced k selves
\* there are k memory nodes besides the root; explorationPaths lists every
\* produced self under its parent ("root" for the root level), each listed id
\* is a stored card with that parent, and a parent's childrenIds has as many
\* entries as its explorationPaths list.
C21_GrowthYieldsOneNodePerSelf ==
    sessCurrentSelf # NoCard =>
        /\ Cardinality(DOMAIN nodeFiles)
               = 1 + PathTotal(explorationPaths, DOMAIN explorationPaths)
        /\ \A key \in DOMAIN explorationPaths :
               /\ \A i \in 1..Len(explorationPaths[key]) :
                      /\ explorationPaths[key][i] \in DOMAIN futureSelvesFull
                      /\ futureSelvesFull[explorationPaths[key][i]].parentSelfId
                             = (IF key = RootKey THEN NullSeq ELSE key)
               /\ key # RootKey =>
                      /\ key \in DOMAIN futureSelvesFull
                      /\ Len(futureSelvesFull[key].childrenIds) = Len(explorationPaths[key])

\* the branch names a batch of generated names slugifies to
BatchSlugs(names) == {Slugify(names[i]) : i \in 1..Len(names)}

\* C22: a successful growth creates a node and a branch record only for the
\* slugified names that are not branch names yet, one each; a card whose slug
\* is already a branch name creates neither, existing nodes and records are
\* left as they were, and a growth whose slugs all exist (a re-run of the same
\* growth is one) leaves the node files and the branch list unchanged.
C22_ExistingBranchNameIsNoOp ==
    [][ (last'.op \in GrowthOps /\ last'.result = "ok")
        => LET fresh == BatchSlugs(last'.args.names) \ BranchNames(branchesDoc)
           IN  /\ BranchNames(branchesDoc') = BranchNames(branchesDoc) \cup fresh
               /\ Len(branchesDoc') = Len(branchesDoc) + Cardinality(fresh)
               /\ Cardinality(DOMAIN nodeFiles')
                      = Cardinality(DOMAIN nodeFiles) + Cardinality(fresh)
               /\ SubSeq(branchesDoc', 1, Len(branchesDoc)) = branchesDoc
               /\ \A n \in DOMAIN nodeFiles :
                      n \in DOMAIN nodeFiles' /\ nodeFiles'[n] = nodeFiles[n]
               /\ fresh = {} => nodeFiles' = nodeFiles /\ branchesDoc' = branchesDoc ]_vars

\* a growth call stored a batch of cards none of which got a node, every slug
\* being a branch name already
C22_Witness ==
    /\ last.op \in GrowthOps
    /\ last.result = "ok"
    /\ last.args.names # <<>>
    /\ BatchSlugs(last.args.names) \subseteq BranchNames(branchesDoc)
    /\ \A i \in 1..Len(last.args.names), n \in DOMAIN nodeFiles :
           nodeFiles[n].selfCard.id
               # HashId(last.args.names[i], last.args.parentSelfId, clock - 1)
    /\ \E i \in 1..Len(last.args.names) :
           HashId(last.args.names[i], last.args.parentSelfId, clock - 1)
               \in DOMAIN futureSelvesFull

C24_ChildrenIdsNameStoredCards ==
    /\ \A p \in DOMAIN futureSelvesFull :
           \A i \in 1..Len(futureSelvesFull[p].childrenIds) :
               /\ futureSelvesFull[p].childrenIds[i] \in DOMAIN futureSelvesFull
               /\ futureSelvesFull[futureSelvesFull[p].childrenIds[i]].parentSelfId = p
    /\ (last.op \in GrowthOps /\ last.result = "ok")
           => \A i \in 1..Len(last.args.names) :
                  LET id == HashId(last.args.names[i], last.args.parentSelfId, clock - 1)
                  IN  id \in DOMAIN futureSelvesFull
                          /\ futureSelvesFull[id].childrenIds = <<>>

\* a growth call under a parent has just stored a batch of two different selves
C24_Witness ==
    /\ last.op \in GrowthOps
    /\ last.result = "ok"
    /\ last.args.parentSelfId \in DOMAIN futureSelvesFull
    /\ Len(last.args.names) = 2
    /\ last.args.names[1] # last.args.names[2]
    /\ Len(futureSelvesFull[last.args.parentSelfId].childrenIds) = 2

----------------------------------------------------------------------------
(* ContextResolver as a function of the node files and the branch list *)

MaxResolverNodes == 3
MaxResolverBranches == 2

ResolverNodeIds == {<<"n", ToString(i)>> : i \in 1..MaxResolverNodes}

\* an id no node file has
MissingNodeId == <<"gone">>

ResolverSelfIds == {<<"s1">>, <<"s2">>}

ResolverNode(id, parentId, selfId) ==
    [id |-> id, parentId |-> parentId, selfCard |-> [id |-> selfId]]

\* node files that embed each self id at most once, or no self card at all
EmbeddingNodeMaps ==
    {[n \in ResolverNodeIds |-> ResolverNode(n, NullSeq, f[n])] :
        f \in {g \in [ResolverNodeIds -> ResolverSelfIds \cup {NullSeq}] :
                 \A a, b \in ResolverNodeIds :
                     (g[a] = g[b] /\ g[a] # NullSeq) => a = b}}

\* node files with any parent links: chains, cycles, links to no node
LinkedNodeMaps ==
    {[n \in ResolverNodeIds |-> ResolverNode(n, f[n], NullSeq)] :
        f \in [ResolverNodeIds -> ResolverNodeIds \cup {NullSeq, MissingNodeId}]}

ResolverBranches ==
    SeqsUpTo([name : {<<"calm">>, <<>>}, headNodeId : ResolverNodeIds,
              parentBranchName : {RootBranchName}], MaxResolverBranches)

Reverse(xs) == [i \in 1..Len(xs) |-> xs[Len(xs) + 1 - i]]

\* the walk answering with the nodes seen so far when it meets one again
RECURSIVE WalkStopAtRevisit(_, _, _, _)
WalkStopAtRevisit(nodeId, nodes, chain, seen) ==
    IF nodeId \in seen THEN [error |-> "none", path |-> Reverse(chain)]
    ELSE IF nodeId \notin DOMAIN nodes THEN [error |-> "not_found", path |-> <<>>]
    ELSE LET node == nodes[nodeId]
         IN  IF node.parentId = NullSeq
             THEN [error |-> "none", path |-> Reverse(Append(chain, node))]
             ELSE WalkStopAtRevisit(node.parentId, nodes, Append(chain, node),
                                    seen \cup {nodeId})

\* ContextResolver._walk_root_to_head: the loop from node_id on, with the
\* chain collected and the ids seen so far
RECURSIVE WalkRootToHead(_, _, _, _)
WalkRootToHead(nodeId, nodes, chain, seen) ==
    IF nodeId \in seen THEN [error |-> "cycle", path |-> <<>>]
    ELSE IF nodeId \notin DOMAIN nodes THEN [error |-> "not_found", path |-> <<>>]
    ELSE LET node == nodes[nodeId]
         IN  IF node.parentId = NullSeq
             THEN [error |-> "none", path |-> Reverse(Append(chain, node))]
             ELSE WalkRootToHead(node.parentId, nodes, Append(chain, node),
                                 seen \cup {nodeId})

InitResolver ==
    /\ sessProfile = -1
    /\ sessCurrentSelf = NoCard
    /\ sessStatus = "onboarding"
    /\ sessTranscriptLen = 0
    /\ futureSelvesFull = <<>>
    /\ explorationPaths = <<>>
    /\ sessMemoryNodes = NoList
    /\ sessMemoryBranches = NoList
    /\ nodeFiles = <<>>
    /\ branchesDoc = <<>>
    /\ transcriptDoc = <<>>
    /\ clock = 1
    /\ budget = NoBudget
    /\ \/ \E nodes \in EmbeddingNodeMaps, branches \in ResolverBranches,
             selfId \in ResolverSelfIds :
               last = Call("load_for_find",
                           [nodes |-> nodes, branches |-> branches, selfId |-> selfId], <<>>)
       \/ \E nodes \in LinkedNodeMaps, head \in ResolverNodeIds \cup {MissingNodeId} :
               last = Call("load_for_walk", [nodes |-> nodes, head |-> head], <<>>)

FindBranchStep ==
    /\ last.op = "load_for_find"
    /\ last' = Call("find_branch_for_self", last.args,
                    FindBranchForSelf(last.args.nodes, last.args.branches, last.args.selfId))
    /\ UNCHANGED <<sessionVars, treeVars, transcriptDoc, clock, budget>>

WalkStep ==
    /\ last.op = "load_for_walk"
    /\ last' = Call("walk_root_to_head", last.args,
                    WalkRootToHead(last.args.head, last.args.nodes, <<>>, {}))
    /\ UNCHANGED <<sessionVars, treeVars, transcriptDoc, clock, budget>>

NextResolver == FindBranchStep \/ WalkStep

SpecResolver == InitResolver /\ [][NextResolver]_vars

\* C25: find_branch_for_self answers with the name of a branch whose head node
\* embeds the self; when no node embeds the self it raises the "no memory
\* node" error, and when a node embeds it but heads no branch it raises the
\* "no branch" error, a different one; in neither case does it answer a name.
C25_FindBranchForSelfOrError ==
    last.op = "find_branch_for_self" =>
        LET nodes == last.args.nodes
            branches == last.args.branches
            embeds == {n \in DOMAIN nodes : nodes[n].selfCard.id = last.args.selfId}
            headed == {j \in 1..Len(branches) : branches[j].headNodeId \in embeds}
            errors == {NoNodeForSelf, NotABranchHead, InvalidBranchName}
        IN  /\ embeds = {} => last.result = NoNodeForSelf
            /\ (embeds # {} /\ headed = {}) => last.result = NotABranchHead
            /\ NoNodeForSelf # NotABranchHead
            /\ (embeds # {} /\ headed # {})
                   => last.result \notin {NoNodeForSelf, NotABranchHead}
            /\ last.result \notin errors
                   => /\ last.result # <<>>
                      /\ \E j \in headed : branches[j].name = last.result

\* the lookup was made for a self whose node heads no branch, while another
\* node is the head of a named branch
C25_Witness ==
    /\ last.op = "find_branch_for_self"
    /\ last.result = NotABranchHead
    /\ \E n \in DOMAIN last.args.nodes :
           last.args.nodes[n].selfCard.id = last.args.selfId
    /\ \E j \in 1..Len(last.args.branches) : last.args.branches[j].name # <<>>

\* the id reached from n after k parent links; the walk stays where it is once
\* it has left the node files
RECURSIVE Up(_, _, _)
Up(nodes, n, k) ==
    IF k = 0 THEN n
    ELSE LET p == Up(nodes, n, k - 1)
         IN  IF p \in DOMAIN nodes THEN nodes[p].parentId ELSE p

----------------------------------------------------------------------------
(* Conversation replies and the transcript *)

Untimed(entry) == [entry EXCEPT !.turn = 0]

C28_StorageFaultKeepsReply ==
    /\ last.op = "conversation_reply" =>
           LET a == last.args
               computed ==
                   /\ FindBranchForSelf(nodeFiles, branchesDoc, a.selfId)
                          \notin {NoNodeForSelf, NotABranchHead, InvalidBranchName}
                   /\ Strip(a.userText) # <<>>
                   /\ Strip(a.replyText) # <<>>
           IN  /\ computed
                      => /\ last.result.status = "200"
                         /\ last.result.reply = Strip(a.replyText)
                         /\ last.result.history
                                = a.history \o << [role |-> "user", content |-> a.userText],
                                                  [role |-> "assistant",
                                                   content |-> Strip(a.replyText)] >>
               /\ ~a.storageOk => transcriptDoc = a.before
    /\ (/\ last.op = "stream_reply"
        /\ last.result.ended = "completed"
        /\ Strip(last.args.userText) # <<>>
        /\ Strip(Join(last.result.chunks)) # <<>>)
           => /\ last.result.final = "done"
              /\ last.result.reply = Strip(Join(last.result.chunks))
              /\ ~last.result.storageOk => transcriptDoc = last.args.before

\* a reply was answered although its turn could not be written
C28_Witness ==
    /\ last.op = "conversation_reply"
    /\ ~last.args.storageOk
    /\ last.result.status = "200"
    /\ last.result.reply # <<>>
    /\ transcriptDoc = last.args.before

\* ---------------------------------------------------------------------------
\* A bad answer of the completion service
\* ---------------------------------------------------------------------------

\* the request passes every check the handler makes before it asks the
\* completion service (read in the state before the call)
GrowthReachesService(op, parentId) ==
    /\ sessProfile # -1
    /\ IF parentId = NullSeq THEN sessCurrentSelf # NoCard
       ELSE parentId \in DOMAIN futureSelvesFull
    /\ op = "initialize_exploration" => DOMAIN futureSelvesFull = {}
    /\ op = "branch_from_conversation" => HasConversation(transcriptDoc, parentId)

\* C29: when the completion service answers a growth request with empty or
\* unparseable output, the handler has asked it exactly once, the caller gets
\* an error (HTTP 500 from the endpoint, PipelineOrchestratorError from the
\* orchestrator), and the session, the memory nodes, the branches and the
\* transcript are what they were before the call.
C29_BadCompletionOutputFailsOnce ==
    [][ ( /\ last'.op \in GrowthOps
          /\ last' # last
          /\ ~last'.args.llmOk
          /\ GrowthReachesService(last'.op, last'.args.parentSelfId) )
        => /\ last'.args.calls = 1
           /\ last'.result = IF last'.op = "generate_future_selves" THEN "HTTP500"
                             ELSE "PipelineOrchestratorError"
           /\ UNCHANGED <<sessionVars, treeVars, transcriptDoc>> ]_vars

\* a branch growth under a stored self with a conversation fails on the bad
\* answer after one call, with the selves of the first growth still stored
C29_Witness ==
    /\ last.op = "generate_future_selves"
    /\ last.args.parentSelfId # NullSeq
    /\ ~last.args.llmOk
    /\ last.args.calls = 1
    /\ last.result = "HTTP500"
    /\ DOMAIN futureSelvesFull # {}
    /\ Len(transcriptDoc) > 0

\* ---------------------------------------------------------------------------
\* The tree only grows
\* ---------------------------------------------------------------------------

\* a session that grows three times, one self at a time, with a conversation turn and
\* an analysis in between: a stored self can get children twice
TreeBudget ==
    [interview |-> MaxInterviewSteps, growth |-> MaxTreeGrowthOps, batch |-> 1,
     append |-> 1, analyze |-> 1, rerun |-> FALSE]

InitTree ==
    /\ sessProfile = -1
    /\ sessCurrentSelf = NoCard
    /\ sessStatus = "onboarding"
    /\ sessTranscriptLen = 0
    /\ futureSelvesFull = <<>>
    /\ explorationPaths = <<>>
    /\ sessMemoryNodes = NoList
    /\ sessMemoryBranches = NoList
    /\ nodeFiles = <<>>
    /\ branchesDoc = <<>>
    /\ transcriptDoc = <<>>
    /\ clock = 1
    /\ budget = TreeBudget
    /\ last = Call("start_interview", [none |-> TRUE], "ok")

\* the names the completion service gives in this session
TreeNames == { <<"Calm">>, <<"Bold", " ", "Self">> }

TreeBatches == SeqsUpTo(TreeNames, 1)

\* the operations of Next, the completion service naming selves from TreeNames
NextTree ==
    \/ \E filled \in FilledChoices, messages \in {InterviewMessages} : InterviewReply(filled, messages)
    \/ \E generated \in BOOLEAN : CompleteOnboarding(generated)
    \/ \E parentId \in {NullSeq, UnknownSelfId} \cup DOMAIN futureSelvesFull,
          rawNames \in TreeBatches, llmOk \in BOOLEAN :
            GenerateFutureSelves(parentId, rawNames, llmOk)
    \/ \E rawNames \in TreeBatches, llmOk \in BOOLEAN :
            InitializeExploration(rawNames, llmOk)
    \/ \E parentId \in {UnknownSelfId} \cup DOMAIN futureSelvesFull,
          rawNames \in TreeBatches, llmOk \in BOOLEAN :
            BranchFromConversation(parentId, rawNames, llmOk)
    \/ \E selfId \in {sessCurrentSelf.id, UnknownSelfId} \cup DOMAIN futureSelvesFull,
          userText \in UserTexts, assistantText \in AssistantTexts :
            ConversationReply(selfId, userText, assistantText)
    \/ \E j \in 1..Len(branchesDoc), apiKey \in ApiKeys, rawItems \in InsightBatches :
            AnalyzeBranch(branchesDoc[j].name, apiKey, rawItems)

SpecTree == InitTree /\ [][NextTree]_vars

StartsWith(s, t) == Len(t) <= Len(s) /\ SubSeq(s, 1, Len(t)) = t

\* C30: a future self that is stored in futureSelvesFull and has a memory node
\* stays stored under the same id with the same name, parentSelfId and
\* depthLevel through every later operation, its node files stay, and its
\* childrenIds only gets longer (the old list is a prefix of the new one).
C30_NothingLostFromTree ==
    [][ \A id \in DOMAIN futureSelvesFull :
            NodeIdsForSelf(nodeFiles, id) # {} =>
                /\ id \in DOMAIN futureSelvesFull'
                /\ futureSelvesFull'[id].name = futureSelvesFull[id].name
                /\ futureSelvesFull'[id].parentSelfId = futureSelvesFull[id].parentSelfId
                /\ futureSelvesFull'[id].depthLevel = futureSelvesFull[id].depthLevel
                /\ StartsWith(futureSelvesFull'[id].childrenIds, futureSelvesFull[id].childrenIds)
                /\ NodeIdsForSelf(nodeFiles, id) \subseteq NodeIdsForSelf(nodeFiles', id) ]_vars

\* a second growth under a stored self that has a node: its childrenIds holds
\* the children of the earlier growth followed by the new ones
C30_Witness ==
    /\ last.op \in GrowthOps
    /\ last.result = "ok"
    /\ last.args.names # <<>>
    /\ last.args.parentSelfId \in DOMAIN futureSelvesFull
    /\ NodeIdsForSelf(nodeFiles, last.args.parentSelfId) # {}
    /\ Len(futureSelvesFull[last.args.parentSelfId].childrenIds) > Len(last.args.names)

\* ---------------------------------------------------------------------------
\* The session's tree structures agree with each other
\* ---------------------------------------------------------------------------

\* C31: every id listed in an explorationPaths entry is a key of
\* futureSelvesFull, and every key of futureSelvesFull is the id of the card
\* stored under it.
C31_PathsNameStoredSelves ==
    /\ \A k \in DOMAIN explorationPaths :
           \A i \in 1..Len(explorationPaths[k]) :
               explorationPaths[k][i] \in DOMAIN futureSelvesFull
    /\ \A id \in DOMAIN futureSelvesFull : futureSelvesFull[id].id = id

\* after a root growth and a growth under a stored self: two path entries,
\* both non-empty
C31_Witness ==
    /\ last.op \in GrowthOps
    /\ last.result = "ok"
    /\ RootKey \in DOMAIN explorationPaths
    /\ explorationPaths[RootKey] # <<>>
    /\ \E k \in DOMAIN explorationPaths : k # RootKey /\ explorationPaths[k] # <<>>

\* ---------------------------------------------------------------------------
\* Two writers of transcript.json without a lock
\* ---------------------------------------------------------------------------

\* transcript.json as the text json.dumps writes: an opening bracket, the
\* entries, a closing bracket
OpenToken == [kind |-> "[", entry |-> [none |-> TRUE]]
CloseToken == [kind |-> "]", entry |-> [none |-> TRUE]]

FileOf(doc) ==
    <<OpenToken>> \o [i \in 1..Len(doc) |-> [kind |-> "entry", entry |-> doc[i]]]
                  \o <<CloseToken>>

\* json.load accepts the text
IsDocument(file) ==
    /\ Len(file) >= 2
    /\ file[1] = OpenToken
    /\ file[Len(file)] = CloseToken
    /\ \A i \in 2..(Len(file) - 1) : file[i].kind = "entry"

ParseFile(file) == [i \in 1..(Len(file) - 2) |-> file[i + 1].entry]

\* write(2) through a descriptor opened before: the text goes to offset 0 and
\* what the file holds beyond it stays
WriteAtStart(file, content) ==
    content \o SubSeq(file, Len(content) + 1, Len(file))

RaceWriters == {1, 2}

\* the requests that write transcript.json: a conversation turn, the memory
\* entries of an analysis, the system entry of a growth
RaceKinds == {"turn", "memory", "system"}

RaceTurn(doc, userText) ==
    AppendConversationTurn(doc, <<"calm">>, <<"s">>, <<"Calm">>, userText, <<"r">>)

\* the transcripts the requests may find: empty, one turn, two turns (full)
RaceDocs ==
    { <<>>, RaceTurn(<<>>, <<"a">>), RaceTurn(RaceTurn(<<>>, <<"a">>), <<"b">>) }

\* the document a request writes after reading doc
RaceUpdate(kind, w, doc) ==
    IF kind = "turn" THEN RaceTurn(doc, IF w = 1 THEN <<"x">> ELSE <<"y">>)
    ELSE IF kind = "memory"
    THEN TrimTranscript(AppendMemoryEntries(doc, <<IF w = 1 THEN I3 ELSE I4>>,
                                            <<"calm">>, <<"s">>, <<"Calm">>))
    ELSE Append(doc, SystemEntry(1))

InitRace ==
    /\ sessProfile = -1
    /\ sessCurrentSelf = NoCard
    /\ sessStatus = "onboarding"
    /\ sessTranscriptLen = 0
    /\ futureSelvesFull = <<>>
    /\ explorationPaths = <<>>
    /\ sessMemoryNodes = NoList
    /\ sessMemoryBranches = NoList
    /\ nodeFiles = <<>>
    /\ branchesDoc = <<>>
    /\ transcriptDoc \in RaceDocs
    /\ clock = 1
    /\ budget = NoBudget
    /\ \E k1 \in RaceKinds, k2 \in RaceKinds :
           last = Call("race",
                       [file |-> FileOf(transcriptDoc), kinds |-> <<k1, k2>>,
                        pc |-> <<"idle", "idle">>, local |-> <<<<>>, <<>>>>,
                        order |-> <<>>],
                       "running")

RaceStep(args) ==
    /\ last' = Call("race", args,
                    IF \A w \in RaceWriters : args.pc[w] \in {"done", "failed"}
                    THEN "finished" ELSE "running")
    /\ UNCHANGED <<sessionVars, treeVars, transcriptDoc, clock, budget>>

\* _load_json_list / json.loads(read_text()) and the update in memory; json
\* raises on a text that is no document and the request ends without writing
RaceRead(w) ==
    /\ last.op = "race"
    /\ last.args.pc[w] = "idle"
    /\ IF IsDocument(last.args.file)
       THEN RaceStep([last.args EXCEPT
                !.pc[w] = "read",
                !.local[w] = RaceUpdate(last.args.kinds[w], w, ParseFile(last.args.file))])
       ELSE RaceStep([last.args EXCEPT !.pc[w] = "failed"])

\* Path.write_text, first half: open(path, "w") truncates the file
RaceOpen(w) ==
    /\ last.op = "race"
    /\ last.args.pc[w] = "read"
    /\ RaceStep([last.args EXCEPT !.pc[w] = "open", !.file = <<>>])

\* Path.write_text, second half: the text is written and the file closed
RaceWrite(w) ==
    /\ last.op = "race"
    /\ last.args.pc[w] = "open"
    /\ RaceStep([last.args EXCEPT
            !.pc[w] = "done",
            !.file = WriteAtStart(last.args.file, FileOf(last.args.local[w])),
            !.order = Append(@, w)])

NextRace == \E w \in RaceWriters : RaceRead(w) \/ RaceOpen(w) \/ RaceWrite(w)

SpecRace == InitRace /\ [][NextRace]_vars

\* C32: when two requests that write the same document interleave, the
\* document left behind once both have ended is the one the later writer wrote
\* (the earlier writer's update may be lost), never a merged or partly written
\* text.
C32_LaterWriterWins ==
    (last.op = "race" /\ last.result = "finished" /\ last.args.order # <<>>) =>
        last.args.file = FileOf(last.args.local[last.args.order[Len(last.args.order)]])

\* ---------------------------------------------------------------------------
\* resolve_ancestor_context as a function of any node files and transcript
\* ---------------------------------------------------------------------------

MaxExcerptInput == 3
MaxExcerptsPerAncestor == 2
MaxTotalExcerpts == 3

PreferredRoles == {"user", "assistant"}

\* include_roles as the callers pass it
IncludeRoleSets == { {"user", "assistant", "memory"}, {"assistant", "memory"}, {"memory"} }

\* the names of the cards on the ancestor chain, and a self outside it
AncestorNames == { <<"Calm">>, <<"Bold">> }
ExcerptNames == AncestorNames \cup { <<"Else">> }

\* transcript entries of the conversation phase; the content tells them apart
ExcerptEntries ==
    {NewTranscriptEntry(role, <<"x">>, <<"b">>, <<"s">>, name) :
        role \in {"user", "assistant", "memory"}, name \in ExcerptNames}

ExcerptTranscripts ==
    {[i \in 1..Len(t) |-> [t[i] EXCEPT !.turn = i, !.content = <<"c", ToString(i)>>]] :
        t \in SeqsUpTo(ExcerptEntries, MaxExcerptInput)}

\* convo_entries: the places of the transcript entries that pass the filter,
\* in transcript order
ConvoEntries(transcript, names, allowedRoles) ==
    SelectSeqIdx([i \in 1..Len(transcript) |-> i],
                 {i \in 1..Len(transcript) :
                     /\ transcript[i].phase = "conversation"
                     /\ transcript[i].selfName \in names
                     /\ transcript[i].role \in allowedRoles}, 1)

\* seen_per_ancestor[name]: the selected entries of that name
SeenPerAncestor(transcript, selected, name) ==
    Cardinality({k \in 1..Len(selected) : transcript[selected[k]].selfName = name})

\* a pass that takes entries of any role
RECURSIVE CollectPassAnyRole(_, _, _, _, _, _, _, _)
CollectPassAnyRole(transcript, convo, i, roles, anyRole, selected, perAncestor, total) ==
    IF i = 0 \/ Len(selected) >= total THEN selected
    ELSE LET entry == transcript[convo[i]]
         IN  IF \/ convo[i] \in {selected[k] : k \in 1..Len(selected)}
                \/ SeenPerAncestor(transcript, selected, entry.selfName) >= perAncestor
             THEN CollectPassAnyRole(transcript, convo, i - 1, roles, anyRole, selected,
                                     perAncestor, total)
             ELSE CollectPassAnyRole(transcript, convo, i - 1, roles, anyRole,
                                     Append(selected, convo[i]), perAncestor, total)

\* _collect_pass(roles=...): the loop over reversed(convo_entries) from place i
\* down; anyRole stands for roles=None
RECURSIVE CollectPass(_, _, _, _, _, _, _, _)
CollectPass(transcript, convo, i, roles, anyRole, selected, perAncestor, total) ==
    IF i = 0 \/ Len(selected) >= total THEN selected
    ELSE LET entry == transcript[convo[i]]
         IN  IF \/ convo[i] \in {selected[k] : k \in 1..Len(selected)}
                \/ (~anyRole /\ entry.role \notin roles)
                \/ SeenPerAncestor(transcript, selected, entry.selfName) >= perAncestor
             THEN CollectPass(transcript, convo, i - 1, roles, anyRole, selected,
                              perAncestor, total)
             ELSE CollectPass(transcript, convo, i - 1, roles, anyRole,
                              Append(selected, convo[i]), perAncestor, total)

\* the excerpts in the order both passes appended them
SelectedInPassOrder(transcript, names, allowedRoles, perAncestor, total) ==
    LET convo == ConvoEntries(transcript, names, allowedRoles)
        preferred == PreferredRoles \cap allowedRoles
        first == IF preferred # {}
                 THEN CollectPass(transcript, convo, Len(convo), preferred, FALSE, <<>>,
                                  perAncestor, total)
                 ELSE <<>>
    IN  CollectPass(transcript, convo, Len(convo), allowedRoles \ preferred,
                    preferred = {}, first, perAncestor, total)

\* the excerpt part of resolve_ancestor_context: the transcript places of the
\* returned excerpts, in the order returned (conversation_excerpts.reverse())
SelectExcerpts(transcript, names, allowedRoles, perAncestor, total) ==
    Reverse(SelectedInPassOrder(transcript, names, allowedRoles, perAncestor, total))

\* f"[{role} <-> {name}]: {content}"
ExcerptText(entry) ==
    <<"[", entry.role, " <-> ">> \o entry.selfName \o <<"]: ">> \o entry.content

\* the card a node file embeds: the one of the self living there, or none
AncestorCard(nodeId) == [id |-> <<"self of ">> \o nodeId, name |-> <<"name of ">> \o nodeId]

AncestorNode(id, parentId, hasCard) ==
    [id |-> id, parentId |-> parentId,
     selfCard |-> IF hasCard THEN AncestorCard(id) ELSE NoCard]

\* node files with any parent links, each with a self card of its own or none
AncestorNodeMaps ==
    {[n \in ResolverNodeIds |-> AncestorNode(n, f[n], c[n])] :
        f \in [ResolverNodeIds -> ResolverNodeIds \cup {NullSeq, MissingNodeId}],
        c \in [ResolverNodeIds -> BOOLEAN]}

AncestorSelfIds == {AncestorCard(n).id : n \in ResolverNodeIds} \cup {UnknownSelfId}

\* the walk from the parent's node up to the root: the cards met, newest first
RECURSIVE AncestorWalk(_, _, _, _)
AncestorWalk(nodes, current, visited, chain) ==
    IF current \notin DOMAIN nodes \/ current \in visited THEN chain
    ELSE LET node == nodes[current]
             met == IF node.selfCard # NoCard THEN Append(chain, node.selfCard) ELSE chain
         IN  IF node.parentId # NullSeq /\ node.parentId \in DOMAIN nodes
             THEN AncestorWalk(nodes, node.parentId, visited \cup {current}, met)
             ELSE met

\* ancestor_chain after the reverse: oldest first, the parent self last
AncestorChain(nodes, parentSelfId) ==
    LET start == {n \in DOMAIN nodes : nodes[n].selfCard.id = parentSelfId}
    IN  IF start = {} THEN <<>>
        ELSE Reverse(AncestorWalk(nodes, CHOOSE n \in start : TRUE, {}, <<>>))

SummaryLine(card) == <<"-> ">> \o card.name \o <<": optimized for goal, traded trade-off">>

\* a summary with a line for every card of the chain
AncestorSummaryWholeChain(nodes, parentSelfId) ==
    [i \in 1..Len(AncestorChain(nodes, parentSelfId)) |->
        SummaryLine(AncestorChain(nodes, parentSelfId)[i])]

\* summary_lines: one line per card of ancestor_chain[:-1]
AncestorSummary(nodes, parentSelfId) ==
    LET chain == AncestorChain(nodes, parentSelfId)
    IN  IF Len(chain) > 1 THEN [i \in 1..(Len(chain) - 1) |-> SummaryLine(chain[i])]
        ELSE <<>>

InitAncestor ==
    /\ sessProfile = -1
    /\ sessCurrentSelf = NoCard
    /\ sessStatus = "onboarding"
    /\ sessTranscriptLen = 0
    /\ futureSelvesFull = <<>>
    /\ explorationPaths = <<>>
    /\ sessMemoryNodes = NoList
    /\ sessMemoryBranches = NoList
    /\ nodeFiles = <<>>
    /\ branchesDoc = <<>>
    /\ transcriptDoc = <<>>
    /\ clock = 1
    /\ budget = NoBudget
    /\ \/ \E nodes \in AncestorNodeMaps, parentSelfId \in AncestorSelfIds :
               last = Call("load_for_summary",
                           [nodes |-> nodes, parentSelfId |-> parentSelfId], <<>>)
       \/ \E transcript \in ExcerptTranscripts, roles \in IncludeRoleSets,
             perAncestor \in 1..MaxExcerptsPerAncestor, total \in 1..MaxTotalExcerpts :
               last = Call("load_for_excerpts",
                           [transcript |-> transcript, includeRoles |-> roles,
                            perAncestor |-> perAncestor, total |-> total], <<>>)

SummaryStep ==
    /\ last.op = "load_for_summary"
    /\ last' = Call("ancestor_summary", last.args,
                    AncestorSummary(last.args.nodes, last.args.parentSelfId))
    /\ UNCHANGED <<sessionVars, treeVars, transcriptDoc, clock, budget>>

ExcerptStep ==
    /\ last.op = "load_for_excerpts"
    /\ last' = Call("conversation_excerpts", last.args,
                    LET places == SelectExcerpts(last.args.transcript, AncestorNames,
                                                 last.args.includeRoles,
                                                 last.args.perAncestor, last.args.total)
                    IN  [places |-> places,
                         texts |-> [k \in 1..Len(places) |->
                                       ExcerptText(last.args.transcript[places[k]])]])
    /\ UNCHANGED <<sessionVars, treeVars, transcriptDoc, clock, budget>>

NextAncestor == SummaryStep \/ ExcerptStep

SpecAncestor == InitAncestor /\ [][NextAncestor]_vars

\* C33: the excerpts resolve_ancestor_context returns are in transcript order,
\* whatever mix of user, assistant and memory entries was selected.
C33_ExcerptsInTranscriptOrder ==
    last.op = "conversation_excerpts" =>
        \A k \in 1..(Len(last.result.places) - 1) :
            last.result.places[k] < last.result.places[k + 1]

\* the transcript places resolve_ancestor_context may select from
EligiblePlaces(args) ==
    SeqRange(ConvoEntries(args.transcript, AncestorNames, args.includeRoles))

\* C34: resolve_ancestor_context returns at most max_total_excerpts excerpts,
\* at most max_conversation_excerpts_per_ancestor of them per ancestor name,
\* each an eligible entry taken once; and it returns an entry of another role
\* than user/assistant only when every eligible user/assistant entry it left
\* out belongs to an ancestor whose share is already filled with
\* user/assistant entries.
C34_ExcerptsWithinCapsPreferTurns ==
    last.op = "conversation_excerpts" =>
        LET t == last.args.transcript
            places == last.result.places
            chosen == SeqRange(places)
            turnsOf(name) == {p \in chosen : t[p].selfName = name
                                             /\ t[p].role \in PreferredRoles}
        IN  /\ Len(places) <= last.args.total
            /\ Cardinality(chosen) = Len(places)
            /\ chosen \subseteq EligiblePlaces(last.args)
            /\ \A name \in ExcerptNames :
                   Cardinality({p \in chosen : t[p].selfName = name}) <= last.args.perAncestor
            /\ (\E p \in chosen : t[p].role \notin PreferredRoles) =>
                   \A e \in EligiblePlaces(last.args) \ chosen :
                       t[e].role \in PreferredRoles =>
                           Cardinality(turnsOf(t[e].selfName)) >= last.args.perAncestor

\* a memory entry was returned next to a user/assistant entry, the total cap
\* is used up, and a user/assistant entry of a full ancestor was left out
C34_Witness ==
    /\ last.op = "conversation_excerpts"
    /\ LET t == last.args.transcript
           chosen == SeqRange(last.result.places)
       IN  /\ Len(last.result.places) = last.args.total
           /\ \E p \in chosen : t[p].role = "memory"
           /\ \E p \in chosen : t[p].role \in PreferredRoles
           /\ \E e \in EligiblePlaces(last.args) \ chosen : t[e].role \in PreferredRoles

\* the k-th node above start exists and the walk up to it met no node twice
IsAncestorStep(nodes, start, k) ==
    /\ \A j \in 1..k : Up(nodes, start, j) \in DOMAIN nodes
    /\ \A i, j \in 0..k : i < j => Up(nodes, start, i) # Up(nodes, start, j)

\* C35: the ancestor summary has exactly one line for every strict ancestor of
\* the parent self's node that carries a self card, the ancestor nearest the
\* root first, and no line for the parent self itself; it is empty when no
\* node embeds the parent self.
C35_SummaryListsStrictAncestors ==
    last.op = "ancestor_summary" =>
        LET nodes == last.args.nodes
            starts == {n \in DOMAIN nodes : nodes[n].selfCard.id = last.args.parentSelfId}
        IN  IF starts = {} THEN last.result = <<>>
            ELSE LET start == CHOOSE n \in starts : TRUE
                     N == Cardinality(DOMAIN nodes)
                     carded == {k \in 1..N : /\ IsAncestorStep(nodes, start, k)
                                             /\ nodes[Up(nodes, start, k)].selfCard # NoCard}
                     farthestFirst == SelectSeqIdx([i \in 1..N |-> N + 1 - i],
                                                   {i \in 1..N : N + 1 - i \in carded}, 1)
                 IN  /\ Len(last.result) = Cardinality(carded)
                     /\ \A i \in 1..Len(last.result) :
                            last.result[i] =
                                SummaryLine(nodes[Up(nodes, start, farthestFirst[i])].selfCard)
                     /\ \A i \in 1..Len(last.result) :
                            last.result[i] # SummaryLine(nodes[start].selfCard)

\* a parent self two levels below the root, every node with a card: two lines
C35_Witness ==
    /\ last.op = "ancestor_summary"
    /\ Len(last.result) = 2
    /\ last.result[1] # last.result[2]

\* ---------------------------------------------------------------------------
\* Every stored self can be found in the memory tree
\* ---------------------------------------------------------------------------

\* C36: every self id in futureSelvesFull is the embedded self card id of
\* exactly one memory node, that node is the head of exactly one branch, and
\* find_branch_for_self answers with that branch's name, also for selves whose
\* names give the same branch name.
C36_EveryStoredSelfHasItsBranch ==
    \A id \in DOMAIN futureSelvesFull :
        /\ Cardinality(NodeIdsForSelf(nodeFiles, id)) = 1
        /\ \A n \in NodeIdsForSelf(nodeFiles, id) :
               Cardinality({j \in 1..Len(branchesDoc) : branchesDoc[j].headNodeId = n}) = 1
        /\ FindBranchForSelf(nodeFiles, branchesDoc, id)
               \notin {NoNodeForSelf, NotABranchHead, InvalidBranchName}

\* ---------------------------------------------------------------------------
\* The status report and what branch_from_conversation accepts
\* ---------------------------------------------------------------------------

\* C37: get_pipeline_status lists branch_from_conversation among the available
\* actions exactly when some self in futureSelvesFull has a conversation-phase
\* transcript entry tagged with its id, that is when branch_from_conversation
\* would accept at least one parent.
C37_StatusOffersBranchingWhenPossible ==
    last.op = "get_pipeline_status" =>
        ( "branch_from_conversation" \in SeqRange(last.result.own.available_actions)
          <=> \E id \in DOMAIN futureSelvesFull : HasConversation(transcriptDoc, id) )

\* C38: once a stored future self has a conversation-phase transcript entry,
\* so that branch_from_conversation accepts it as parent, it keeps one through
\* every later operation, also through those that trim the transcript.
C38_BranchingStaysPermitted ==
    [][ \A id \in DOMAIN futureSelvesFull :
            HasConversation(transcriptDoc, id) => HasConversation(transcriptDoc', id) ]_vars

\* C39: for every future self p in futureSelvesFull, p's childrenIds is the
\* list explorationPaths holds under p's id (the empty list when there is no
\* such entry), and every self listed there is stored with parentSelfId equal
\* to p's id.
C39_ChildrenIdsMatchPaths ==
    \A p \in DOMAIN futureSelvesFull :
        LET listed == IF p \in DOMAIN explorationPaths THEN explorationPaths[p] ELSE <<>>
        IN  /\ futureSelvesFull[p].childrenIds = listed
            /\ \A i \in 1..Len(listed) :
                   /\ listed[i] \in DOMAIN futureSelvesFull
                   /\ futureSelvesFull[listed[i]].parentSelfId = p

\* a growth of two different selves under a stored self
C39_Witness ==
    /\ last.op \in GrowthOps
    /\ last.result = "ok"
    /\ last.args.parentSelfId \in DOMAIN futureSelvesFull
    /\ Len(futureSelvesFull[last.args.parentSelfId].childrenIds) = 2
    /\ futureSelvesFull[last.args.parentSelfId].childrenIds[1]
           # futureSelvesFull[last.args.parentSelfId].childrenIds[2]

\* the last operation wrote the persisted transcript
WroteTranscript ==
    \/ last.op \in GrowthOps /\ last.result = "ok"
    \/ last.op = "append_turn" /\ last.result = "appended"
    \/ last.op = "analyze" /\ last.result = "persisted"

\* C40: after any operation that writes the transcript (appendTurn, insight
\* persistence, the system entry appended by a growth of the tree), the
\* persisted transcript holds at most MaxTranscriptEntries entries.
C40_TranscriptWithinMaximum ==
    WroteTranscript => Len(transcriptDoc) <= MaxTranscriptEntries

=============================================================================
